---- MODULE Spec2Model ----
(***************************************************************************)
(* Model of financio's SMS-to-transaction extraction engine                *)
(* (src/utils/smsParser.ts).  Messages are character strings; every        *)
(* regular expression of parseBankSMS is translated into a matcher that    *)
(* scans the string the way the JavaScript regex engine does (leftmost     *)
(* match, greedy / lazy quantifiers, case-insensitive literals).           *)
(***************************************************************************)
EXTENDS Integers, Sequences, FiniteSets, TLC

VARIABLES
    family,     \* the family of SMS text the message body is drawn from
    message,    \* the raw SMS body the caller is about to pass
    isString,   \* whether the value passed is a string at run time
    clock,      \* new Date().toLocaleTimeString() as read by the call
    pc,         \* "compose" before the call, "returned" after it
    result,     \* what parseBankSMS returned
    descriptionArg, \* the description passed to categorizeTransaction
    amountArg,  \* the amount passed with it: <<>> when absent, <<x>> when given
    category,   \* what categorizeTransaction returned
    calls,      \* the calls made so far by a caller that makes several
    storage,    \* AsyncStorage: the value stored under each key the app uses
    tasks,      \* the async calls started so far, each with its local state
    inbox       \* the messages readDeviceSMS returns

categorizeVars == <<descriptionArg, amountArg, category>>

appVars == <<storage, tasks, inbox>>

vars == <<family, message, isString, clock, pc, result,
          descriptionArg, amountArg, category, calls,
          storage, tasks, inbox>>

(***************************************************************************)
(* Bounds of the model.                                                    *)
(***************************************************************************)
\* Longest raw message body, in characters.
MaxLen == 44
\* Longest description passed to categorizeTransaction, in characters.
MaxDescriptionLen == 12
\* Most calls a caller that makes several makes.
MaxCalls == 3

(***************************************************************************)
(* Characters and strings.                                                 *)
(***************************************************************************)
UpperAlpha == "ABCDEFGHIJKLMNOPQRSTUVWXYZ"
LowerAlpha == "abcdefghijklmnopqrstuvwxyz"
DigitChars == "0123456789"

\* The character of s at position i ("" outside the string).
Ch(s, i) == IF 1 <= i /\ i <= Len(s) THEN SubSeq(s, i, i) ELSE ""

\* s[i..j-1] (end exclusive, like String.prototype.substring).
Sub(s, i, j) == IF i < j THEN SubSeq(s, i, j - 1) ELSE ""

\* The literal lit stands in s at position i.
LitAt(s, i, lit) ==
    /\ i >= 1
    /\ i + Len(lit) - 1 <= Len(s)
    /\ SubSeq(s, i, i + Len(lit) - 1) = lit

UpperLetters == {SubSeq(UpperAlpha, k, k) : k \in 1..Len(UpperAlpha)}
LowerLetters == {SubSeq(LowerAlpha, k, k) : k \in 1..Len(LowerAlpha)}
Digits == {SubSeq(DigitChars, k, k) : k \in 1..Len(DigitChars)}

ToLowerMap == [c \in UpperLetters |->
                 LET k == CHOOSE k \in 1..Len(UpperAlpha) :
                              SubSeq(UpperAlpha, k, k) = c
                 IN  SubSeq(LowerAlpha, k, k)]

DigitValue == [c \in Digits |->
                 (CHOOSE k \in 1..Len(DigitChars) :
                      SubSeq(DigitChars, k, k) = c) - 1]

LowerChar(c) == IF c \in UpperLetters THEN ToLowerMap[c] ELSE c

\* The string F(lo) F(lo+1) ... F(hi), put together by halves.
RECURSIVE Join(_, _, _)
Join(F(_), lo, hi) ==
    IF lo > hi THEN ""
    ELSE IF lo = hi THEN F(lo)
    ELSE Join(F, lo, (lo + hi) \div 2) \o Join(F, (lo + hi) \div 2 + 1, hi)

\* The /i flag: patterns are written in lower case and matched against the
\* lower-cased text; captures are cut from the text itself.
ToLower(s) == LET F(i) == LowerChar(Ch(s, i)) IN Join(F, 1, Len(s))

IsDigit(c) == c \in Digits
\* \s
WhiteSpace == {" ", "\t", "\n", "\r"}
IsSpace(c) == c \in WhiteSpace
\* [A-Za-z]
IsLetter(c) == c \in LowerLetters \/ c \in UpperLetters
\* [\d,]
IsNumSep(c) == IsDigit(c) \/ c = ","
\* [A-Z\s\(\)] under /i
IsMerchantChar(c) == IsLetter(c) \/ IsSpace(c) \/ c \in {"(", ")"}
\* [A-Za-z0-9]
IsAlnum(c) == IsLetter(c) \/ IsDigit(c)

\* Greedy runs: the first position at or after i whose character is outside
\* the class.
RECURSIVE SkipSpace(_, _)
SkipSpace(s, i) == IF IsSpace(Ch(s, i)) THEN SkipSpace(s, i + 1) ELSE i

RECURSIVE SkipDigits(_, _)
SkipDigits(s, i) == IF IsDigit(Ch(s, i)) THEN SkipDigits(s, i + 1) ELSE i

RECURSIVE SkipNumSep(_, _)
SkipNumSep(s, i) == IF IsNumSep(Ch(s, i)) THEN SkipNumSep(s, i + 1) ELSE i

RECURSIVE SkipAlnum(_, _)
SkipAlnum(s, i) == IF IsAlnum(Ch(s, i)) THEN SkipAlnum(s, i + 1) ELSE i

RECURSIVE SkipStars(_, _)
SkipStars(s, i) == IF Ch(s, i) = "*" THEN SkipStars(s, i + 1) ELSE i

Min(S) == CHOOSE x \in S : \A y \in S : x <= y

\* String.prototype.match without the g flag: the leftmost position of 1..n at
\* which the pattern matches (0 when it matches nowhere).
MinOrZero(hits) == IF hits = {} THEN 0 ELSE Min(hits)

Leftmost(n, At(_)) == MinOrZero({i \in 1..n : At(i)})

\* lit occurs somewhere in s.
Contains(s, lit) == \E i \in 1..Len(s) : LitAt(s, i, lit)

(***************************************************************************)
(* message.replace(/\n/g, ' ').replace(/\s+/g, ' ').trim()                 *)
(***************************************************************************)
\* .replace(/\n/g, ' ')
ReplaceNewlines(s) ==
    LET F(i) == IF Ch(s, i) = "\n" THEN " " ELSE Ch(s, i)
    IN  Join(F, 1, Len(s))

\* .replace(/\s+/g, ' '): the first character of a run of whitespace becomes
\* a space, the rest of the run goes.
CollapseSpace(s) ==
    LET F(i) == IF ~IsSpace(Ch(s, i)) THEN Ch(s, i)
                ELSE IF IsSpace(Ch(s, i - 1)) THEN "" ELSE " "
    IN  Join(F, 1, Len(s))

RECURSIVE TrimLeft(_)
TrimLeft(s) == IF s # "" /\ IsSpace(Head(s)) THEN TrimLeft(Tail(s)) ELSE s

RECURSIVE TrimRight(_)
TrimRight(s) ==
    IF s # "" /\ IsSpace(Ch(s, Len(s)))
    THEN TrimRight(Sub(s, 1, Len(s)))
    ELSE s

Trim(s) == TrimRight(TrimLeft(s))

\* Variant: the runs of white space are not collapsed.
NormalizeNoCollapse(s) == Trim(ReplaceNewlines(s))

Normalize(s) == Trim(CollapseSpace(ReplaceNewlines(s)))

(***************************************************************************)
(* Numbers.  A JavaScript number is NaN or the decimal mant / 10^exp in    *)
(* lowest terms (mant not a multiple of 10 unless exp = 0), so that two    *)
(* records are equal exactly when the numbers are.                         *)
(***************************************************************************)
NaN == [nan |-> TRUE, mant |-> 0, exp |-> 0]

RECURSIVE Reduce(_, _)
Reduce(m, e) ==
    IF e > 0 /\ m % 10 = 0 THEN Reduce(m \div 10, e - 1)
    ELSE [nan |-> FALSE, mant |-> m, exp |-> e]

Zero == Reduce(0, 0)

isNaN(x) == x.nan
\* x > 0 (false for NaN, as in JavaScript)
Positive(x) == ~x.nan /\ x.mant > 0
\* x === 0 (false for NaN)
IsZero(x) == ~x.nan /\ x.mant = 0

\* The integer written by a string of digits ("" is 0).
RECURSIVE DigitsValue(_, _)
DigitsValue(s, acc) ==
    IF s = "" THEN acc ELSE DigitsValue(Tail(s), 10 * acc + DigitValue[Head(s)])

\* Variant: str.replace(',', ''), which removes the first comma only.
StripFirstComma(s) ==
    LET first == MinOrZero({i \in 1..Len(s) : Ch(s, i) = ","})
    IN  IF first = 0 THEN s
        ELSE Sub(s, 1, first) \o Sub(s, first + 1, Len(s) + 1)

\* str.replace(/,/g, '')
StripCommas(s) ==
    LET F(i) == IF Ch(s, i) = "," THEN "" ELSE Ch(s, i)
    IN  Join(F, 1, Len(s))

\* parseFloat on text made of digits, commas and dots: the longest prefix
\* digits [ "." digits ] with at least one digit, NaN when there is none.
parseFloat(s) ==
    LET e1 == SkipDigits(s, 1)
        e2 == IF Ch(s, e1) = "." THEN SkipDigits(s, e1 + 1) ELSE e1
        ip == Sub(s, 1, e1)
        fp == IF Ch(s, e1) = "." THEN Sub(s, e1 + 1, e2) ELSE ""
    IN  IF ip = "" /\ fp = "" THEN NaN
        ELSE Reduce(DigitsValue(ip \o fp, 0), Len(fp))

(***************************************************************************)
(* Regular expression matches.  A match is [ok, g1, g2]: whether the       *)
(* pattern matched and its capture groups.                                 *)
(***************************************************************************)
NoMatch == [ok |-> FALSE, g1 |-> "", g2 |-> ""]
Matched(a, b) == [ok |-> TRUE, g1 |-> a, g2 |-> b]

\* ([\d,]+\.?\d*) at position p: the position after the group (p itself
\* when the group does not match there).
FractionEnd(s, p, e1) ==
    IF e1 = p THEN p
    ELSE SkipDigits(s, IF Ch(s, e1) = "." THEN e1 + 1 ELSE e1)

NumberEnd(s, p) == FractionEnd(s, p, SkipNumSep(s, p))

\* The match whose first group is the number standing at p.
NumberCapture(s, p) == Matched(Sub(s, p, NumberEnd(s, p)), "")

NumberAt(s, p) == NumberEnd(s, p) > p

\* The position after the literal lit standing at i (0 when it does not).
LitEnd(ls, i, lit) == IF LitAt(ls, i, lit) THEN i + Len(lit) ELSE 0

\* <label>\s*([\d,]+\.?\d*), where LabelEnd(i) is the position after the label
\* standing at i (0 when the label does not stand there).
LabelledNumberAt(s, e) == e > 0 /\ NumberAt(s, SkipSpace(s, e))

LabelledNumberFrom(s, i, LabelEnd(_)) ==
    IF i = 0 THEN NoMatch ELSE NumberCapture(s, SkipSpace(s, LabelEnd(i)))

MatchLabelledNumber(s, LabelEnd(_)) ==
    LET At(i) == LabelledNumberAt(s, LabelEnd(i))
    IN  LabelledNumberFrom(s, Leftmost(Len(s), At), LabelEnd)

\* <lit>\s*BDT as a label
LitBDTEnd(s, ls, i, lit) ==
    IF LitAt(ls, i, lit) THEN LitEnd(ls, SkipSpace(s, i + Len(lit)), "bdt") ELSE 0

(***************************************************************************)
(* parseBankSMS: transaction type (smsParser.ts lines 30-39).              *)
(***************************************************************************)
CreditWords == {"credited", "credit", "deposit", "inward credit", "reversed"}
DebitWords == {"debited", "debit", "charged", "withdrawn"}

\* cleanMessage.match(/(credited|credit|deposit|inward credit|reversed)/i)
MatchesCredit(ls) == \E w \in CreditWords : Contains(ls, w)
\* cleanMessage.match(/(debited|debit|charged|withdrawn)/i)
MatchesDebit(ls) == \E w \in DebitWords : Contains(ls, w)

\* Variant: the debit vocabulary is consulted first.
ResolveTypeDebitFirst(ls) ==
    IF MatchesDebit(ls) THEN "debit"
    ELSE IF MatchesCredit(ls) THEN "credit"
    ELSE "none"

\* Variant: without the final else branch the initial value 'debit' stays.
ResolveTypeDefaultDebit(ls) ==
    IF MatchesCredit(ls) THEN "credit" ELSE "debit"

\* "none" stands for the early return null.
ResolveType(ls) ==
    IF MatchesCredit(ls) THEN "credit"
    ELSE IF MatchesDebit(ls) THEN "debit"
    ELSE "none"

(***************************************************************************)
(* parseBankSMS: amount (lines 41-65).                                     *)
(***************************************************************************)
\* amount:?\s*BDT as a label
AmountLabelEnd(s, ls, i) ==
    IF LitAt(ls, i, "amount")
    THEN LET a == i + Len("amount")
         IN  LitEnd(ls, SkipSpace(s, IF Ch(s, a) = ":" THEN a + 1 ELSE a), "bdt")
    ELSE 0

\* /([\d,]+\.?\d*)\s*withdrawn/i
NumberWithdrawnAt(s, ls, i, e) ==
    e > i /\ LitAt(ls, SkipSpace(s, e), "withdrawn")

NumberWithdrawnFrom(s, i) == IF i = 0 THEN NoMatch ELSE NumberCapture(s, i)

MatchNumberWithdrawn(s, ls) ==
    LET At(i) == NumberWithdrawnAt(s, ls, i, NumberEnd(s, i))
    IN  NumberWithdrawnFrom(s, Leftmost(Len(s), At))

NumAmountPatterns == Len(<<"BDT", "charged for BDT", "withdrawn", "amount: BDT">>)

\* cleanMessage.match(amountPatterns[k - 1])
AmountPatternMatch(s, ls, k) ==
    CASE k = 1 -> LET E(i) == LitEnd(ls, i, "bdt") IN MatchLabelledNumber(s, E)
      [] k = 2 -> LET E(i) == LitEnd(ls, i, "charged for bdt")
                  IN  MatchLabelledNumber(s, E)
      [] k = 3 -> MatchNumberWithdrawn(s, ls)
      [] k = 4 -> LET E(i) == AmountLabelEnd(s, ls, i)
                  IN  MatchLabelledNumber(s, E)

\* Variant: the thousands separators are not removed.
CapturedNumberCommasKept(m) == parseFloat(m.g1)

\* parseFloat(amountMatch[1].replace(/,/g, ''))
CapturedNumber(m) == parseFloat(StripCommas(m.g1))

\* The for loop over amountPatterns from pattern k on, amount being the
\* value the variable holds so far.
RECURSIVE AmountLoop(_, _, _, _)

\* amount = parseFloat(amountStr); if (!isNaN(amount) && amount > 0) break;
AmountAssigned(s, ls, k, a) ==
    IF ~isNaN(a) /\ Positive(a) THEN a ELSE AmountLoop(s, ls, k + 1, a)

\* One turn of the loop, amountMatch being pattern k's match.
AmountTurn(s, ls, k, amount, amountMatch) ==
    IF amountMatch.ok
    THEN AmountAssigned(s, ls, k, CapturedNumber(amountMatch))
    ELSE AmountLoop(s, ls, k + 1, amount)

AmountLoop(s, ls, k, amount) ==
    IF k > NumAmountPatterns THEN amount
    ELSE AmountTurn(s, ls, k, amount, AmountPatternMatch(s, ls, k))

ExtractAmount(s, ls) == AmountLoop(s, ls, 1, Zero)

(***************************************************************************)
(* parseBankSMS: account number (lines 67-82).                             *)
(***************************************************************************)
Undefined == "<undefined>"

\* /A\/C \(\*+(\d+)\)/i
\* The match whose first group is the run of digits standing at p.
DigitsCapture(s, p) == Matched(Sub(s, p, SkipDigits(s, p)), "")

DigitsCaptureFrom(s, i, P(_)) == IF i = 0 THEN NoMatch ELSE DigitsCapture(s, P(i))

MatchAccountAC(s, ls) ==
    LET D(i) == SkipStars(s, i + Len("a/c ("))
        At(i) == /\ LitAt(ls, i, "a/c (")
                 /\ D(i) > i + Len("a/c (")
                 /\ SkipDigits(s, D(i)) > D(i)
                 /\ Ch(s, SkipDigits(s, D(i))) = ")"
    IN  DigitsCaptureFrom(s, Leftmost(Len(s), At), D)

\* /Card#(\d+)/i
MatchAccountCard(s, ls) ==
    LET D(i) == i + Len("card#")
        At(i) == LitAt(ls, i, "card#") /\ SkipDigits(s, D(i)) > D(i)
    IN  DigitsCaptureFrom(s, Leftmost(Len(s), At), D)

\* \d{4} stands at position j
FourDigitsAt(s, j) == \A d \in 0..3 : IsDigit(Ch(s, j + d))

\* /account.*?(\d{4})/i
MatchAccountGeneric(s, ls) ==
    LET Cands(i) == {j \in (i + Len("account"))..Len(s) :
                        /\ FourDigitsAt(s, j)
                        /\ \A k \in (i + Len("account"))..(j - 1) :
                              Ch(s, k) \notin {"\n", "\r"}}
        At(i) == LitAt(ls, i, "account") /\ Cands(i) # {}
        From(i) == IF i = 0 THEN NoMatch
                   ELSE LET G(j) == Matched(Sub(s, j, j + 4), "")
                        IN  G(Min(Cands(i)))
    IN  From(Leftmost(Len(s), At))

\* One turn of a for loop that takes the first matching pattern's group:
\* m is this pattern's match, rest the outcome of the later turns.
FirstCapture(m, rest) == IF m.ok THEN m.g1 ELSE rest

\* Variant: 'Card#' is looked for before 'A/C'.
ExtractAccountCardFirst(s, ls) ==
    FirstCapture(MatchAccountCard(s, ls),
        FirstCapture(MatchAccountAC(s, ls),
            FirstCapture(MatchAccountGeneric(s, ls), Undefined)))

ExtractAccount(s, ls) ==
    FirstCapture(MatchAccountAC(s, ls),
        FirstCapture(MatchAccountCard(s, ls),
            FirstCapture(MatchAccountGeneric(s, ls), Undefined)))

(***************************************************************************)
(* parseBankSMS: balance (lines 84-103).                                   *)
(***************************************************************************)
NumBalancePatterns ==
    Len(<<"Avl Bal: BDT", "Avl Bal:", "Available Balance: BDT", "Balance: BDT">>)

BalancePatternMatch(s, ls, k) ==
    CASE k = 1 -> LET E(i) == LitBDTEnd(s, ls, i, "avl bal:")
                  IN  MatchLabelledNumber(s, E)
      [] k = 2 -> LET E(i) == LitEnd(ls, i, "avl bal:")
                  IN  MatchLabelledNumber(s, E)
      [] k = 3 -> LET E(i) == LitBDTEnd(s, ls, i, "available balance:")
                  IN  MatchLabelledNumber(s, E)
      [] k = 4 -> LET E(i) == LitBDTEnd(s, ls, i, "balance:")
                  IN  MatchLabelledNumber(s, E)

RECURSIVE BalanceLoop(_, _, _, _)

\* balance = parseFloat(balanceStr); if (!isNaN(balance)) break;
BalanceAssigned(s, ls, k, b) ==
    IF ~isNaN(b) THEN b ELSE BalanceLoop(s, ls, k + 1, b)

BalanceTurn(s, ls, k, balance, balanceMatch) ==
    IF balanceMatch.ok
    THEN BalanceAssigned(s, ls, k, CapturedNumber(balanceMatch))
    ELSE BalanceLoop(s, ls, k + 1, balance)

BalanceLoop(s, ls, k, balance) ==
    IF k > NumBalancePatterns THEN balance
    ELSE BalanceTurn(s, ls, k, balance, BalancePatternMatch(s, ls, k))

ExtractBalance(s, ls) == BalanceLoop(s, ls, 1, Zero)

(***************************************************************************)
(* parseBankSMS: timestamp (lines 105-120).                                *)
(***************************************************************************)
\* \d{1,2}:\d{2}\s*[AP]M at position p: the position after it, 0 when it does
\* not stand there.
\* [AP]M at position q
MeridiemEnd(ls, q) ==
    IF Ch(ls, q) \in {"a", "p"} /\ Ch(ls, q + 1) = "m" THEN q + 2 ELSE 0

\* :\d{2}\s*[AP]M, the colon standing at c (0: the hour did not match)
MinutesEnd(s, ls, c) ==
    IF c > 0 /\ IsDigit(Ch(s, c + 1)) /\ IsDigit(Ch(s, c + 2))
    THEN MeridiemEnd(ls, SkipSpace(s, c + 3))
    ELSE 0

TimeEnd(s, ls, p) ==
    MinutesEnd(s, ls,
        IF IsDigit(Ch(s, p)) /\ IsDigit(Ch(s, p + 1)) /\ Ch(s, p + 2) = ":"
        THEN p + 2
        ELSE IF IsDigit(Ch(s, p)) /\ Ch(s, p + 1) = ":" THEN p + 1 ELSE 0)

TimeCapture(s, ls, p) == Matched(Sub(s, p, TimeEnd(s, ls, p)), "")

\* <lit>\s*(\d{1,2}:\d{2}\s*[AP]M) under /i
MatchPrefixTime(s, ls, lit) ==
    LET P(i) == SkipSpace(s, i + Len(lit))
        At(i) == LitAt(ls, i, lit) /\ TimeEnd(s, ls, P(i)) > 0
        From(i) == IF i = 0 THEN NoMatch ELSE TimeCapture(s, ls, P(i))
    IN  From(Leftmost(Len(s), At))

\* \d{2}\/\d{2}\/\d{2} stands at position p
DateAt(s, p) ==
    /\ \A d \in {0, 1, 3, 4, 6, 7} : IsDigit(Ch(s, p + d))
    /\ Ch(s, p + 2) = "/"
    /\ Ch(s, p + 5) = "/"
DateLen == Len("dd/mm/yy")

\* \d{2}:\d{2} stands at position p
HourMinuteAt(s, p) ==
    /\ \A d \in {0, 1, 3, 4} : IsDigit(Ch(s, p + d))
    /\ Ch(s, p + 2) = ":"
HourMinuteLen == Len("hh:mm")

\* /on\s*(\d{2}\/\d{2}\/\d{2})\s*(\d{2}:\d{2})/i
MatchOnDateTime(s, ls) ==
    LET P(i) == SkipSpace(s, i + Len("on"))
        Q(i) == SkipSpace(s, P(i) + DateLen)
        At(i) == /\ LitAt(ls, i, "on")
                 /\ DateAt(s, P(i))
                 /\ HourMinuteAt(s, Q(i))
        From(i) == IF i = 0 THEN NoMatch
                   ELSE Matched(Sub(s, P(i), P(i) + DateLen),
                                Sub(s, Q(i), Q(i) + HourMinuteLen))
    IN  From(Leftmost(Len(s), At))

NumTimestampPatterns == Len(<<"@ time", "at time", "on date time">>)

TimestampPatternMatch(s, ls, k) ==
    CASE k = 1 -> MatchPrefixTime(s, ls, "@")
      [] k = 2 -> MatchPrefixTime(s, ls, "at")
      [] k = 3 -> MatchOnDateTime(s, ls)

\* timestampMatch[1] || `${timestampMatch[1]} ${timestampMatch[2]}`
\* (a non-empty string is truthy, so the first group alone is taken)
TimestampOf(m) == IF m.g1 # "" THEN m.g1 ELSE m.g1 \o " " \o m.g2

\* The for loop over timestampPatterns; now is the initial value
\* new Date().toLocaleTimeString().
RECURSIVE TimestampLoop(_, _, _, _)

\* Variant: no break, so the last matching pattern wins.
TimestampTurnNoBreak(s, ls, k, timestamp, timestampMatch) ==
    TimestampLoop(s, ls, k + 1,
        IF timestampMatch.ok THEN TimestampOf(timestampMatch) ELSE timestamp)

\* One turn of the loop, timestampMatch being pattern k's match.
TimestampTurn(s, ls, k, timestamp, timestampMatch) ==
    IF timestampMatch.ok THEN TimestampOf(timestampMatch)
    ELSE TimestampLoop(s, ls, k + 1, timestamp)

TimestampLoop(s, ls, k, timestamp) ==
    IF k > NumTimestampPatterns THEN timestamp
    ELSE TimestampTurn(s, ls, k, timestamp, TimestampPatternMatch(s, ls, k))

ExtractTimestamp(s, ls, now) == TimestampLoop(s, ls, 1, now)

(***************************************************************************)
(* parseBankSMS: description (lines 122-141).                              *)
(***************************************************************************)
\* \s+on\s+\d{2}\/\d{2}\/\d{2} stands at position c
SpacedDateAt(s, e, d) == d > e /\ DateAt(s, d)

SpacedOnDateAt(s, ls, c, o) ==
    /\ o > c
    /\ LitAt(ls, o, "on")
    /\ SpacedDateAt(s, o + Len("on"), SkipSpace(s, o + Len("on")))

OnDateClauseAt(s, ls, c) == SpacedOnDateAt(s, ls, c, SkipSpace(s, c))

\* The captures [b, c) that /at\s+([A-Z\s\(\)]+?)\s+on\s+\d{2}\/\d{2}\/\d{2}/i
\* can take when "at" stands at i.
MerchantCaptures(s, ls, i) ==
    {bc \in ((i + Len("at") + 1)..SkipSpace(s, i + Len("at")))
                \X ((i + Len("at") + 2)..Len(s)) :
        /\ bc[1] < bc[2]
        /\ OnDateClauseAt(s, ls, bc[2])
        /\ \A k \in bc[1]..(bc[2] - 1) : IsMerchantChar(Ch(s, k))}

\* \s+ is greedy (the longest run of spaces that leaves a match) and the
\* capture lazy (the shortest one).
FirstMerchantCapture(caps) ==
    CHOOSE x \in caps :
        \A y \in caps : \/ y[1] < x[1]
                        \/ (y[1] = x[1] /\ x[2] <= y[2])

MerchantCaptureOf(s, bc) == Matched(Sub(s, bc[1], bc[2]), "")

\* The match of the merchant pattern, taken at the leftmost "at" that has one.
MatchMerchant(s, ls) ==
    LET At(i) == LitAt(ls, i, "at") /\ MerchantCaptures(s, ls, i) # {}
        From(i) == IF i = 0 THEN NoMatch
                   ELSE MerchantCaptureOf(s,
                            FirstMerchantCapture(MerchantCaptures(s, ls, i)))
    IN  From(Leftmost(Len(s), At))

\* Variant: the second alternative is missing.
MatchesATMUcblOnly(s, ls) ==
    \E i \in 1..Len(s) :
        /\ LitAt(ls, i, "at")
        /\ SkipSpace(s, i + Len("at")) > i + Len("at")
        /\ LitAt(ls, SkipSpace(s, i + Len("at")), "ucbl atm")

\* /at\s+(UCBL ATM|NPSB ATM)/i
MatchesATM(s, ls) ==
    LET NameAt(e, p) ==
            p > e /\ (LitAt(ls, p, "ucbl atm") \/ LitAt(ls, p, "npsb atm"))
    IN  \E i \in 1..Len(s) :
            /\ LitAt(ls, i, "at")
            /\ NameAt(i + Len("at"), SkipSpace(s, i + Len("at")))

\* /I Banking.*Transfer|Fund Transfer/i
MatchesTransfer(s, ls) ==
    \/ \E i \in 1..Len(s) :
          /\ LitAt(ls, i, "i banking")
          /\ \E j \in (i + Len("i banking"))..Len(s) :
                /\ LitAt(ls, j, "transfer")
                /\ \A k \in (i + Len("i banking"))..(j - 1) :
                      Ch(s, k) \notin {"\n", "\r"}
    \/ Contains(ls, "fund transfer")

\* Variant: 'reversed' is looked for before 'NPSB CHARGE'.
DescriptionAfterMerchantReversedFirst(s, ls, type, merchantMatch) ==
    IF merchantMatch.ok THEN Trim(merchantMatch.g1)
    ELSE IF MatchesATM(s, ls) THEN "ATM Withdrawal"
    ELSE IF Contains(ls, "beftn inward credit") THEN "Bank Transfer (Received)"
    ELSE IF MatchesTransfer(s, ls) THEN "Online Transfer"
    ELSE IF Contains(ls, "reversed") THEN "Transaction Reversal"
    ELSE IF Contains(ls, "npsb charge") THEN "Bank Service Charge"
    ELSE IF type = "debit" THEN "Bank Debit" ELSE "Bank Credit"

DescriptionAfterMerchant(s, ls, type, merchantMatch) ==
    IF merchantMatch.ok THEN Trim(merchantMatch.g1)
    ELSE IF MatchesATM(s, ls) THEN "ATM Withdrawal"
    ELSE IF Contains(ls, "beftn inward credit") THEN "Bank Transfer (Received)"
    ELSE IF MatchesTransfer(s, ls) THEN "Online Transfer"
    ELSE IF Contains(ls, "npsb charge") THEN "Bank Service Charge"
    ELSE IF Contains(ls, "reversed") THEN "Transaction Reversal"
    ELSE IF type = "debit" THEN "Bank Debit" ELSE "Bank Credit"

ExtractDescription(s, ls, type) ==
    DescriptionAfterMerchant(s, ls, type, MatchMerchant(s, ls))

(***************************************************************************)
(* parseBankSMS: transaction reference (lines 145-160).                    *)
(***************************************************************************)
\* /<lit>\s*(\d+)/i
MatchPrefixDigits(s, ls, lit) ==
    LET P(i) == SkipSpace(s, i + Len(lit))
        At(i) == LitAt(ls, i, lit) /\ SkipDigits(s, P(i)) > P(i)
    IN  DigitsCaptureFrom(s, Leftmost(Len(s), At), P)

\* /Ref:\s*([A-Za-z0-9]+)/i
MatchRef(s, ls) ==
    LET P(i) == SkipSpace(s, i + Len("ref:"))
        At(i) == LitAt(ls, i, "ref:") /\ SkipAlnum(s, P(i)) > P(i)
        G(p) == Matched(Sub(s, p, SkipAlnum(s, p)), "")
        From(i) == IF i = 0 THEN NoMatch ELSE G(P(i))
    IN  From(Leftmost(Len(s), At))

ExtractTransactionId(s, ls) ==
    FirstCapture(MatchPrefixDigits(s, ls, "for query:"),
        FirstCapture(MatchPrefixDigits(s, ls, "cl id:"),
            FirstCapture(MatchRef(s, ls), Undefined)))

(***************************************************************************)
(* parseBankSMS (lines 24-179).  A call returns null or a record; "throw"  *)
(* is an exception propagating out of a block.                             *)
(***************************************************************************)
Null == [tag |-> "null"]
Thrown == [tag |-> "throw"]

\* Variant: a message without an account number is rejected as well.
ExtractFieldsAccountRequired(cleanMessage, ls, type, amount, now) ==
    IF IsZero(amount) \/ ExtractAccount(cleanMessage, ls) = Undefined THEN Null
    ELSE [tag |-> "record",
          type |-> type,
          amount |-> amount,
          balance |-> ExtractBalance(cleanMessage, ls),
          timestamp |-> ExtractTimestamp(cleanMessage, ls, now),
          accountNumber |-> ExtractAccount(cleanMessage, ls),
          description |-> ExtractDescription(cleanMessage, ls, type),
          transactionId |-> ExtractTransactionId(cleanMessage, ls)]

\* Lines 41-173, type being resolved; ls is cleanMessage in lower case.
ExtractFields(cleanMessage, ls, type, amount, now) ==
    IF IsZero(amount) THEN Null
    ELSE [tag |-> "record",
          type |-> type,
          amount |-> amount,
          balance |-> ExtractBalance(cleanMessage, ls),
          timestamp |-> ExtractTimestamp(cleanMessage, ls, now),
          accountNumber |-> ExtractAccount(cleanMessage, ls),
          description |-> ExtractDescription(cleanMessage, ls, type),
          transactionId |-> ExtractTransactionId(cleanMessage, ls)]

\* Lines 29-39.
ParseTyped(cleanMessage, ls, type, now) ==
    IF type = "none" THEN Null
    ELSE ExtractFields(cleanMessage, ls, type,
                       ExtractAmount(cleanMessage, ls), now)

ParseClean(cleanMessage, ls, now) ==
    ParseTyped(cleanMessage, ls, ResolveType(ls), now)

\* The body of the try block.  message.replace throws a TypeError when the
\* caller passes a value that is not a string (undefined, null, a number).
TryBlock(isStr, msg, now) ==
    IF ~isStr THEN Thrown
    ELSE LET Lowered(cleanMessage) ==
                 ParseClean(cleanMessage, ToLower(cleanMessage), now)
         IN  Lowered(Normalize(msg))

\* Variant: no try/catch around the body.
parseBankSMSNoCatch(isStr, msg, now) == TryBlock(isStr, msg, now)

\* try { ... } catch (error) { return null; }
CatchToNull(r) == IF r.tag = "throw" THEN Null ELSE r

parseBankSMS(isStr, msg, now) == CatchToNull(TryBlock(isStr, msg, now))

(***************************************************************************)
(* categorizeTransaction (lines 184-248).  The optional amount is <<>>     *)
(* when the caller gives none and <<x>> when it gives the number x.        *)
(***************************************************************************)
\* desc.includes(w) for some w of words; desc.match(/(w1|w2|...)/i) on the
\* lower-case desc is the same test.
IncludesAny(desc, words) == \E w \in words : Contains(desc, w)

RECURSIVE Pow10(_)
Pow10(e) == IF e = 0 THEN 1 ELSE 10 * Pow10(e - 1)

\* x > n for an integer n (false for NaN)
GreaterThan(x, n) == ~x.nan /\ x.mant > n * Pow10(x.exp)

\* The truth value of an optional number: undefined, 0 and NaN are falsy.
Truthy(a) == a # <<>> /\ ~isNaN(a[1]) /\ ~IsZero(a[1])

LargePaymentThreshold == 10000

\* Variant: amount >= 10000
IsLargePaymentInclusive(a) ==
    Truthy(a) /\ (GreaterThan(a[1], LargePaymentThreshold)
                    \/ a[1] = [nan |-> FALSE, mant |-> 10000, exp |-> 0])

\* amount && amount > 10000
IsLargePayment(a) == Truthy(a) /\ GreaterThan(a[1], LargePaymentThreshold)

\* Variant: the function ends without the final return.
DefaultCategoryNoReturn(a) ==
    IF IsLargePayment(a) THEN "Large Payment" ELSE Undefined

\* Lines 242-247.
DefaultCategory(a) == IF IsLargePayment(a) THEN "Large Payment" ELSE "Other"

\* Variant: a later rule that matches overrides an earlier one.
KeywordRuleLastWins(desc, words, label, rest) ==
    IF rest \notin {"Large Payment", "Other"} THEN rest
    ELSE IF IncludesAny(desc, words) THEN label ELSE rest

\* if (<desc holds one of words>) { return label; } <rest>
KeywordRule(desc, words, label, rest) ==
    IF IncludesAny(desc, words) THEN label ELSE rest

\* Lines 218-240: the general patterns.
GeneralCategory(desc, a) ==
    KeywordRule(desc, {"restaurant", "cafe", "food", "pizza", "burger", "kfc",
                       "domino", "starbucks", "coffee", "dining"}, "Food",
    KeywordRule(desc, {"uber", "pathao", "taxi", "transport", "fuel", "petrol",
                       "gas"}, "Transport",
    KeywordRule(desc, {"shop", "store", "market", "mall", "purchase", "retail",
                       "bazar", "daraz"}, "Shopping",
    KeywordRule(desc, {"bill", "utility", "electric", "internet", "phone",
                       "mobile", "recharge"}, "Bills",
    KeywordRule(desc, {"salary", "income", "payment", "bonus", "allowance"},
                "Income",
    KeywordRule(desc, {"entertainment", "movie", "game", "fun", "ticket"},
                "Entertainment",
    KeywordRule(desc, {"education", "school", "college", "course", "book"},
                "Education",
    DefaultCategory(a))))))))

\* Variant: the merchant-specific patterns are missing.
CategoryOfLowerNoMerchantRules(desc, a) ==
    KeywordRule(desc, {"atm withdrawal", "withdrawn", "atm"}, "ATM Withdrawal",
    KeywordRule(desc, {"beftn", "transfer", "inward credit"}, "Bank Transfer",
    KeywordRule(desc, {"charge", "fee", "npsb charge"}, "Bank Fees",
    KeywordRule(desc, {"reversal", "reversed"}, "Refund",
    GeneralCategory(desc, a)))))

\* Lines 187-216: the UCB specific and the merchant-specific patterns.
CategoryOfLower(desc, a) ==
    KeywordRule(desc, {"atm withdrawal", "withdrawn", "atm"}, "ATM Withdrawal",
    KeywordRule(desc, {"beftn", "transfer", "inward credit"}, "Bank Transfer",
    KeywordRule(desc, {"charge", "fee", "npsb charge"}, "Bank Fees",
    KeywordRule(desc, {"reversal", "reversed"}, "Refund",
    KeywordRule(desc, {"jeweller", "jewelry", "gold"}, "Shopping",
    KeywordRule(desc, {"pharma", "pharmacy", "medicine", "medical"}, "Health",
    GeneralCategory(desc, a)))))))

\* Variant: the description is not lower-cased.
categorizeTransactionCaseSensitive(d, a) == CategoryOfLower(d, a)

\* const desc = description.toLowerCase(); ...
categorizeTransaction(d, a) == CategoryOfLower(ToLower(d), a)

(***************************************************************************)
(* Storage (src/utils/storage.ts, src/utils/budgetStorage.ts).             *)
(* AsyncStorage is a record with one field per key; every operator below   *)
(* takes the stored value it reads and returns the value it writes.  A     *)
(* transaction is [id, amount, type, category, description, date, source]; *)
(* a monthly budget is [id, month, categories] with categories a sequence  *)
(* of [name, allocatedAmount, spentAmount].  Timestamps (updatedAt,        *)
(* createdAt), colours and notification texts are not modelled.            *)
(***************************************************************************)
\* new Date().toISOString().substring(0, 7) at the time of the calls.
currentMonth == "2025-06"

\* DEFAULT_BUDGET_SETTINGS
DefaultWarningThreshold == 80
DEFAULT_BUDGET_SETTINGS ==
    [enableBudgetAlerts |-> TRUE, warningThreshold |-> DefaultWarningThreshold]

\* No key has been written: getTransactions, getMonthlyBudgets and
\* getBudgetNotifications read [], getBudgetSettings reads the defaults.
\* hasTransactions tells whether getItem finds the transactions key.
EmptyStorage ==
    [hasTransactions |-> FALSE,
     transactions |-> <<>>,
     budgets |-> <<>>,
     notifications |-> <<>>,
     settings |-> DEFAULT_BUDGET_SETTINGS]

\* String.prototype.startsWith
StartsWith(s, prefix) == LitAt(s, 1, prefix)

\* budgets.find(b => b.month === month): its index, 0 for null.
BudgetIndex(budgets, month) ==
    MinOrZero({i \in 1..Len(budgets) : budgets[i].month = month})

\* existingBudgets.filter(b => b.id !== budget.id), then push.
saveMonthlyBudget(budgets, budget) ==
    SelectSeq(budgets, LAMBDA b : b.id # budget.id) \o <<budget>>

\* budget.categories.map(cat => cat.name === category ? {...cat,
\* spentAmount: cat.spentAmount + amount} : cat)
UpdatedCategories(categories, categoryName, amount) ==
    [i \in 1..Len(categories) |->
        IF categories[i].name = categoryName
        THEN [categories[i] EXCEPT !.spentAmount = @ + amount]
        ELSE categories[i]]

\* updatedCategories.find(cat => cat.name === category): its index, 0 when
\* there is none.
CategoryIndex(categories, categoryName) ==
    MinOrZero({i \in 1..Len(categories) : categories[i].name = categoryName})

\* (spent / allocated) * 100 >= t.  Dividing by an allocated amount of 0
\* gives Infinity for spent > 0, -Infinity for spent < 0 and NaN for 0;
\* a comparison with NaN is false.
PercentageAtLeast(spent, allocated, t) ==
    IF allocated > 0 THEN spent * 100 >= t * allocated ELSE spent > 0

\* (spent / allocated) * 100 < t.
PercentageBelow(spent, allocated, t) ==
    IF allocated > 0 THEN spent * 100 < t * allocated ELSE spent < 0

\* Variant: 'budget_exceeded' whenever the category is at or over its
\* allocation after the update.
BudgetAlertWheneverOver(cat, amount, settings) ==
    IF PercentageAtLeast(cat.spentAmount, cat.allocatedAmount, 100)
    THEN "budget_exceeded"
    ELSE "none"

\* The alert updateBudgetSpending raises for the updated category.
BudgetAlert(cat, amount, settings) ==
    IF /\ PercentageAtLeast(cat.spentAmount, cat.allocatedAmount, 100)
       /\ cat.spentAmount - amount < cat.allocatedAmount
    THEN "budget_exceeded"
    ELSE IF /\ PercentageAtLeast(cat.spentAmount, cat.allocatedAmount,
                                 settings.warningThreshold)
            /\ PercentageBelow(cat.spentAmount - amount, cat.allocatedAmount,
                               settings.warningThreshold)
    THEN "budget_warning"
    ELSE "none"

\* saveBudgetNotification(generateBudgetNotification(type, category, ...))
saveBudgetNotification(notifications, type, categoryName) ==
    Append(notifications, [type |-> type, category |-> categoryName])

\* The notifications after the alert check of updateBudgetSpending.
NotificationsAfter(st, categories, categoryName, amount) ==
    LET i == CategoryIndex(categories, categoryName)
        alert == IF st.settings.enableBudgetAlerts /\ i # 0
                 THEN BudgetAlert(categories[i], amount, st.settings)
                 ELSE "none"
    IN  IF alert = "none" THEN st.notifications
        ELSE saveBudgetNotification(st.notifications, alert, categoryName)

\* updateBudgetSpending(month, category, amount): the storage it leaves.
updateBudgetSpending(st, month, categoryName, amount) ==
    LET b == BudgetIndex(st.budgets, month)
    IN  IF b = 0 THEN st
        ELSE LET budget == st.budgets[b]
                 updatedCategories ==
                     UpdatedCategories(budget.categories, categoryName, amount)
                 updatedBudget ==
                     [budget EXCEPT !.categories = updatedCategories]
             IN  [st EXCEPT
                    !.budgets = saveMonthlyBudget(st.budgets, updatedBudget),
                    !.notifications = NotificationsAfter(st, updatedCategories,
                                                         categoryName, amount)]

\* if (!transaction.id) transaction.id = Date.now().toString()
WithId(transaction, now) ==
    IF transaction.id = "" THEN [transaction EXCEPT !.id = now]
    ELSE transaction

\* The transaction counts in the budget of the current month.
CountsInBudget(transaction) ==
    /\ transaction.type = "expense"
    /\ StartsWith(transaction.date, currentMonth)

\* The budget part of saveTransaction.
BudgetAfterSave(st, transaction) ==
    IF CountsInBudget(transaction)
    THEN updateBudgetSpending(st, currentMonth, transaction.category,
                              transaction.amount)
    ELSE st

\* existingTransactions.find(t => t.id === transactionId): its index, 0 for
\* undefined.
TransactionIndex(list, transactionId) ==
    MinOrZero({i \in 1..Len(list) : list[i].id = transactionId})

\* existingTransactions.filter(t => t.id !== transactionId)
WithoutId(list, transactionId) ==
    SelectSeq(list, LAMBDA t : t.id # transactionId)

\* The budget part of deleteTransaction; existing is the list it read.
BudgetAfterDelete(st, existing, transactionId) ==
    LET i == TransactionIndex(existing, transactionId)
    IN  IF i # 0 /\ CountsInBudget(existing[i])
        THEN updateBudgetSpending(st, currentMonth, existing[i].category,
                                  0 - existing[i].amount)
        ELSE st

(***************************************************************************)
(* The caller.  A message body is put together from pieces of bank SMS     *)
(* text in the formats of the header comment of smsParser.ts (lines 19-22),*)
(* with the degenerate amounts "0.00" and ","; then parseBankSMS is called *)
(* on it once, as processSMSTransactions does (smsReader.ts line 542).     *)
(* The pieces come in families so that every combination of one family is  *)
(* explored: the mandatory fields (type, amount) and the optional ones.    *)
(***************************************************************************)
Families == {"amounts", "fields"}

Fragments(fam) ==
    CASE fam = "amounts" ->
           { "debited ", "credited ",
             "BDT 3,060.50 ", "BDT 0.00 ", "BDT , ",
             "charged for\nBDT43 ", "7,000 withdrawn ", "amount:BDT 2.5 " }
      [] fam = "fields" ->
           { "9 withdrawn ", "credited BDT 5 ",
             "@ 07:58 PM ", "at 7:58 am ", "on 07/05/25 20:07 ",
             "at NPSB ATM ", "fm UCBL ATM ", "at NEW SHOP ",
             "Avl Bal: BDT 9 ", "A/C (***3766) ", "For query: 16419 " }
      [] fam = "descriptions" ->
           { "debit BDT5 ", "BDT5 ",
             "at KFC on 07/05/25 ", "at NPSB ATM ", "Beftn Inward Credit ",
             "Fund Transfer ", "NPSB CHARGE ", "reversed " }
      [] fam = "balances" ->
           { "debit BDT5 ", "Avl Bal: BDT 9 ", "Avl Bal: BDT , ",
             "Avl Bal:7.5 ", "Available Balance: BDT 1,200 ",
             "Balance: BDT 0.00 " }
      [] fam = "identifiers" ->
           { "debit BDT5 ", "A/C (***3766) ", "Card#5884 ", "account no 1234 ",
             "For query: 16419 ", "For query: Call:16 ", "CL ID:257015 ",
             "Ref: AB12 " }
      [] fam = "accountDebit" ->
           { "Your A/C (***3766) has been debited BDT 3,060.00. ",
             "Avl Bal: BDT 3,04,017.61 ", "@ 07:58 PM. ", "For query: 16419" }
      [] fam = "cardCharge" ->
           { "Your UCB Debit Card#5884 ", "(CL ID:257015) ",
             "has been charged for BDT4,300.00 ",
             "at NEW SONALI JEWELLERS on 07/05/25 20:07" }
      [] fam = "fixedDescriptions" ->
           { "debited BDT 5 ", "credited BDT 5 ", "debited BDT 25,000 ",
             "credited BDT 25,000 ", "at UCBL ATM ", "Beftn Inward Credit ",
             "Fund Transfer ", "NPSB CHARGE ", "reversed " }
      [] fam = "balanceClauses" ->
           { "debited ", "BDT 5 ", "Avl Bal: BDT 9 ", "Balance: BDT 7 " }
      [] OTHER -> {}

\* Locale time strings the wall clock can give.
ClockStrings == {"7:58:00 PM", "19:58:00"}

Pending == [tag |-> "pending"]

\* No call of categorizeTransaction has been made.
NotCategorized ==
    /\ descriptionArg = ""
    /\ amountArg = <<>>
    /\ category = "<pending>"

\* Nothing is stored, no async call has started and the device holds no
\* message.
AppIdle ==
    /\ storage = EmptyStorage
    /\ tasks = <<>>
    /\ inbox = <<>>

Init ==
    /\ family \in Families
    /\ message = ""
    /\ isString = TRUE
    /\ clock = ""
    /\ pc = "compose"
    /\ result = Pending
    /\ NotCategorized
    /\ calls = <<>>
    /\ AppIdle

\* The caller extends the body by one fragment.
AppendFragment(f) ==
    /\ pc = "compose"
    /\ isString
    /\ Len(message) + Len(f) <= MaxLen
    /\ message' = message \o f
    /\ UNCHANGED <<family, isString, clock, pc, result>>
    /\ UNCHANGED <<categorizeVars, calls>>
    /\ UNCHANGED appVars

\* The caller holds no string (message.body is undefined at run time).
PassNonString ==
    /\ pc = "compose"
    /\ isString
    /\ message = ""
    /\ isString' = FALSE
    /\ UNCHANGED <<family, message, clock, pc, result>>
    /\ UNCHANGED <<categorizeVars, calls>>
    /\ UNCHANGED appVars

\* parseBankSMS(message.body)
Call ==
    /\ pc = "compose"
    /\ \E now \in ClockStrings :
          /\ clock' = now
          /\ result' = parseBankSMS(isString, message, now)
    /\ pc' = "returned"
    /\ UNCHANGED <<family, message, isString>>
    /\ UNCHANGED <<categorizeVars, calls>>
    /\ UNCHANGED appVars

Next ==
    \/ \E f \in Fragments(family) : AppendFragment(f)
    \/ PassNonString
    \/ Call

Spec == Init /\ [][Next]_vars

\* The same caller, with message bodies that hold the phrases of the
\* description rules (lines 126-141).
InitDescriptions ==
    /\ family = "descriptions"
    /\ message = ""
    /\ isString = TRUE
    /\ clock = ""
    /\ pc = "compose"
    /\ result = Pending
    /\ NotCategorized
    /\ calls = <<>>
    /\ AppIdle

SpecDescriptions == InitDescriptions /\ [][Next]_vars

\* The same caller, with message bodies that hold balance labels
\* (lines 86-91).
InitBalances ==
    /\ family = "balances"
    /\ message = ""
    /\ isString = TRUE
    /\ clock = ""
    /\ pc = "compose"
    /\ result = Pending
    /\ NotCategorized
    /\ calls = <<>>
    /\ AppIdle

SpecBalances == InitBalances /\ [][Next]_vars

\* The same caller, with message bodies that hold account and reference
\* labels (lines 69-73 and 147-151).
InitIdentifiers ==
    /\ family = "identifiers"
    /\ message = ""
    /\ isString = TRUE
    /\ clock = ""
    /\ pc = "compose"
    /\ result = Pending
    /\ NotCategorized
    /\ calls = <<>>
    /\ AppIdle

SpecIdentifiers == InitIdentifiers /\ [][Next]_vars

(***************************************************************************)
(* A caller of categorizeTransaction: it puts a description together from  *)
(* words, one for each keyword rule and one that no rule knows, and calls  *)
(* the function with it and with an amount or none.                        *)
(***************************************************************************)
DescriptionWords ==
    { "ATM ", "Transfer ", "Fee ", "Reversal ", "Gold ", "Pharma ", "Cafe ",
      "Uber ", "Shop ", "Bill ", "Bonus ", "Game ", "Book ", "Bank Debit " }

\* <<>>: no amount; then 0, 10000, 10000.01, 25000, -20000, NaN, 3060.5
CategorizeAmounts ==
    { <<>>,
      <<[nan |-> FALSE, mant |-> 0, exp |-> 0]>>,
      <<[nan |-> FALSE, mant |-> 10000, exp |-> 0]>>,
      <<[nan |-> FALSE, mant |-> 1000001, exp |-> 2]>>,
      <<[nan |-> FALSE, mant |-> 25000, exp |-> 0]>>,
      <<[nan |-> FALSE, mant |-> -20000, exp |-> 0]>>,
      <<NaN>>,
      <<[nan |-> FALSE, mant |-> 30605, exp |-> 1]>> }

InitCategorize ==
    /\ family = "keywords"
    /\ message = ""
    /\ isString = TRUE
    /\ clock = ""
    /\ pc = "describe"
    /\ result = Pending
    /\ NotCategorized
    /\ calls = <<>>
    /\ AppIdle

\* The caller extends the description by one word.
AppendWord(w) ==
    /\ pc = "describe"
    /\ Len(descriptionArg) + Len(w) <= MaxDescriptionLen
    /\ descriptionArg' = descriptionArg \o w
    /\ UNCHANGED <<family, message, isString, clock, pc, result>>
    /\ UNCHANGED <<amountArg, category, calls>>
    /\ UNCHANGED appVars

\* categorizeTransaction(description, amount) or
\* categorizeTransaction(description)
CallCategorize ==
    /\ pc = "describe"
    /\ \E a \in CategorizeAmounts :
          /\ amountArg' = a
          /\ category' = categorizeTransaction(descriptionArg, a)
    /\ pc' = "categorized"
    /\ UNCHANGED <<family, message, isString, clock, result>>
    /\ UNCHANGED <<descriptionArg, calls>>
    /\ UNCHANGED appVars

NextCategorize ==
    \/ \E w \in DescriptionWords : AppendWord(w)
    \/ CallCategorize

SpecCategorize == InitCategorize /\ [][NextCategorize]_vars

(***************************************************************************)
(* The keywords of the merchant-specific and general rules (the fifth to   *)
(* the thirteenth if statement of categorizeTransaction), each passed as   *)
(* the whole description.                                                  *)
(***************************************************************************)
LaterRules ==
    <<[words |-> {"jeweller", "jewelry", "gold"}, label |-> "Shopping"],
      [words |-> {"pharma", "pharmacy", "medicine", "medical"},
       label |-> "Health"],
      [words |-> {"restaurant", "cafe", "food", "pizza", "burger", "kfc",
                  "domino", "starbucks", "coffee", "dining"},
       label |-> "Food"],
      [words |-> {"uber", "pathao", "taxi", "transport", "fuel", "petrol",
                  "gas"},
       label |-> "Transport"],
      [words |-> {"shop", "store", "market", "mall", "purchase", "retail",
                  "bazar", "daraz"},
       label |-> "Shopping"],
      [words |-> {"bill", "utility", "electric", "internet", "phone",
                  "mobile", "recharge"},
       label |-> "Bills"],
      [words |-> {"salary", "income", "payment", "bonus", "allowance"},
       label |-> "Income"],
      [words |-> {"entertainment", "movie", "game", "fun", "ticket"},
       label |-> "Entertainment"],
      [words |-> {"education", "school", "college", "course", "book"},
       label |-> "Education"]>>

LaterKeywords == UNION {LaterRules[n].words : n \in 1..Len(LaterRules)}

InitKeywords ==
    /\ family = "rule keywords"
    /\ message = ""
    /\ isString = TRUE
    /\ clock = ""
    /\ pc = "describe"
    /\ result = Pending
    /\ NotCategorized
    /\ calls = <<>>
    /\ AppIdle

\* The caller takes a keyword as the description.
DescribeKeyword(w) ==
    /\ pc = "describe"
    /\ descriptionArg = ""
    /\ descriptionArg' = w
    /\ UNCHANGED <<family, message, isString, clock, pc, result>>
    /\ UNCHANGED <<amountArg, category, calls>>
    /\ UNCHANGED appVars

NextKeywords ==
    \/ \E w \in LaterKeywords : DescribeKeyword(w)
    \/ CallCategorize

SpecKeywords == InitKeywords /\ [][NextKeywords]_vars

(***************************************************************************)
(* A caller that makes several calls, as processSMSTransactions does in    *)
(* its loop over the inbox (smsReader.ts lines 520-566): parseBankSMS on   *)
(* message bodies and categorizeTransaction on descriptions, in any order. *)
(* A body is a text, a sequence of words, laid out with white space        *)
(* between the words and around them.  smsParser.ts keeps no state outside *)
(* its two functions, so a call is given nothing of the calls before it.   *)
(***************************************************************************)
Texts ==
    << <<"debited", "BDT", "3,060.50", "@", "07:58", "PM">>,
       <<"BDT", "43", "charged", "at", "NEW", "SHOP", "on", "07/05/25">>,
       <<"BDT", "5", "Avl", "Bal:", "BDT", "9">> >>

LayoutNames == {"plain", "lines", "padded"}

\* The white space before the first word, between two words and after the
\* last word.
Layout(name) ==
    CASE name = "plain" -> [lead |-> "", sep |-> " ", trail |-> ""]
      [] name = "lines" -> [lead |-> "", sep |-> "\n", trail |-> ""]
      [] name = "padded" -> [lead |-> " ", sep |-> " \t\n ", trail |-> "\n"]

RECURSIVE Joined(_, _)
Joined(words, sep) ==
    IF Len(words) = 1 THEN Head(words)
    ELSE Head(words) \o sep \o Joined(Tail(words), sep)

Render(words, lay) == lay.lead \o Joined(words, lay.sep) \o lay.trail

Body(b, name) == Render(Texts[b], Layout(name))

RepeatDescriptions == {"Bank Debit", "NEW SHOP"}

\* new Date().toLocaleTimeString() at the n-th call: the clock moves on
\* between two calls.
ClockAt(n) == "7:58:0" \o Ch(DigitChars, n + 1) \o " PM"

\* Variant: the type patterns are global regular expressions kept between
\* the calls, whose lastIndex makes every second test fail.
ParseAfterStickyTest(earlier, msg, now) ==
    LET parses == {i \in DOMAIN earlier : earlier[i].fn = "parseBankSMS"}
    IN  IF Cardinality(parses) % 2 = 1 THEN Null
        ELSE parseBankSMS(TRUE, msg, now)

\* The result of parseBankSMS(msg) when the calls of earlier came before.
ParseAfter(earlier, msg, now) == parseBankSMS(TRUE, msg, now)

InitCalls ==
    /\ family = "calls"
    /\ message = ""
    /\ isString = TRUE
    /\ clock = ""
    /\ pc = "loop"
    /\ result = Pending
    /\ NotCategorized
    /\ calls = <<>>
    /\ AppIdle

\* parseBankSMS(message.body), the body being text b in the layout name.
ParseAgain(b, name) ==
    /\ pc = "loop"
    /\ Len(calls) < MaxCalls
    /\ calls' = Append(calls,
          [fn |-> "parseBankSMS", text |-> b, layout |-> name,
           arg |-> Body(b, name), now |-> ClockAt(Len(calls) + 1),
           result |-> ParseAfter(calls, Body(b, name),
                                 ClockAt(Len(calls) + 1))])
    /\ UNCHANGED <<family, message, isString, clock, pc, result>>
    /\ UNCHANGED categorizeVars
    /\ UNCHANGED appVars

\* categorizeTransaction(d)
CategorizeAgain(d) ==
    /\ pc = "loop"
    /\ Len(calls) < MaxCalls
    /\ calls' = Append(calls,
          [fn |-> "categorizeTransaction", text |-> 0, layout |-> "plain",
           arg |-> d, now |-> "",
           result |-> categorizeTransaction(d, <<>>)])
    /\ UNCHANGED <<family, message, isString, clock, pc, result>>
    /\ UNCHANGED categorizeVars
    /\ UNCHANGED appVars

NextCalls ==
    \/ \E b \in DOMAIN Texts : \E name \in LayoutNames : ParseAgain(b, name)
    \/ \E d \in RepeatDescriptions : CategorizeAgain(d)

SpecCalls == InitCalls /\ [][NextCalls]_vars

(***************************************************************************)
(* The caller end to end (smsReader.ts lines 542-562): the body is put     *)
(* together from the parts of one of the bank's message formats, each part *)
(* at most once, parseBankSMS is called on it, and the description and the *)
(* amount of the record go to categorizeTransaction.                       *)
(***************************************************************************)
ScenarioFamilies == {"accountDebit", "cardCharge"}

InitScenarios ==
    /\ family \in ScenarioFamilies
    /\ message = ""
    /\ isString = TRUE
    /\ clock = ""
    /\ pc = "compose"
    /\ result = Pending
    /\ NotCategorized
    /\ calls = <<>>
    /\ AppIdle

\* The body gets one more part of the format.
AppendPiece(p) ==
    /\ pc = "compose"
    /\ ~Contains(message, p)
    /\ message' = message \o p
    /\ UNCHANGED <<family, isString, clock, pc, result>>
    /\ UNCHANGED <<categorizeVars, calls>>
    /\ UNCHANGED appVars

\* const baseDescription = parsedTransaction.description ||
\*     (parsedTransaction.type === 'debit' ? 'Bank Debit' : 'Bank Credit');
BaseDescription(parsed) ==
    IF parsed.description # "" /\ parsed.description # Undefined
    THEN parsed.description
    ELSE IF parsed.type = "debit" THEN "Bank Debit" ELSE "Bank Credit"

\* categorizeTransaction(baseDescription, parsedTransaction.amount)
CategorizeParsed ==
    /\ pc = "returned"
    /\ result.tag = "record"
    /\ descriptionArg' = BaseDescription(result)
    /\ amountArg' = <<result.amount>>
    /\ category' = categorizeTransaction(BaseDescription(result),
                                         <<result.amount>>)
    /\ pc' = "categorized"
    /\ UNCHANGED <<family, message, isString, clock, result, calls>>
    /\ UNCHANGED appVars

NextScenarios ==
    \/ \E p \in Fragments(family) : AppendPiece(p)
    \/ Call
    \/ CategorizeParsed

SpecScenarios == InitScenarios /\ [][NextScenarios]_vars

(***************************************************************************)
(* Messages that get the fixed descriptions of parseBankSMS (lines         *)
(* 122-141), parsed and then categorized as processSMSTransactions does.   *)
(***************************************************************************)
InitFixedDescriptions ==
    /\ family = "fixedDescriptions"
    /\ message = ""
    /\ isString = TRUE
    /\ clock = ""
    /\ pc = "compose"
    /\ result = Pending
    /\ NotCategorized
    /\ calls = <<>>
    /\ AppIdle

NextFixedDescriptions ==
    \/ \E f \in Fragments(family) : AppendFragment(f)
    \/ Call
    \/ CategorizeParsed

SpecFixedDescriptions ==
    InitFixedDescriptions /\ [][NextFixedDescriptions]_vars

(***************************************************************************)
(* Messages with a balance clause beside, before or without the amount of  *)
(* the transaction.                                                        *)
(***************************************************************************)
InitBalanceClauses ==
    /\ family = "balanceClauses"
    /\ message = ""
    /\ isString = TRUE
    /\ clock = ""
    /\ pc = "compose"
    /\ result = Pending
    /\ NotCategorized
    /\ calls = <<>>
    /\ AppIdle

SpecBalanceClauses == InitBalanceClauses /\ [][Next]_vars

(***************************************************************************)
(* Async calls.  Each call of an async function is a task: a record with   *)
(* the function's name (op), the await it is suspended at (pc) and its     *)
(* local variables.  A step runs one task from the await it is at to its   *)
(* next one, so calls that are in flight together interleave exactly at    *)
(* their await points.  AsyncStorage itself never fails.  The awaits       *)
(* inside updateBudgetSpending are taken in one step.  A task also records *)
(* the storage found when it was called and left when it returned, whether *)
(* every earlier call had returned when it was called, and how many times  *)
(* it has written the transaction list.                                    *)
(***************************************************************************)
parserVars == <<family, message, isString, clock, pc, result,
                descriptionArg, amountArg, category, calls>>

\* The parser is not in use.
ParserIdle ==
    /\ family = "none"
    /\ message = ""
    /\ isString = TRUE
    /\ clock = ""
    /\ pc = "compose"
    /\ result = Pending
    /\ NotCategorized
    /\ calls = <<>>

\* Most calls made one after the other.
MaxOps == 2
\* Most calls in flight together.
MaxTasks == 2

AllDone == \A k \in 1..Len(tasks) : tasks[k].pc = "done"

\* Date.now().toString() at the n-th call.
DateNow(n) == "171" \o Ch(DigitChars, n + 1)

NewTask(op, at, transaction, id) ==
    [op |-> op, pc |-> at, transaction |-> transaction, id |-> id,
     hasExisting |-> FALSE, existing |-> <<>>, writes |-> 0,
     alone |-> AllDone, before |-> storage, after |-> storage]

\* The task returns to its caller, leaving st in storage.
Return(task, st) == [task EXCEPT !.pc = "done", !.after = st]

\* saveTransaction(transaction) is called.
BeginSaveTransaction(transaction) ==
    /\ tasks' = Append(tasks,
                   NewTask("saveTransaction", "saveTransaction:getItem",
                           WithId(transaction, DateNow(Len(tasks))), ""))
    /\ UNCHANGED <<storage, inbox, parserVars>>

\* await AsyncStorage.getItem(STORAGE_KEYS.TRANSACTIONS)
SaveGetItem(k) ==
    /\ k \in 1..Len(tasks)
    /\ tasks[k].pc = "saveTransaction:getItem"
    /\ tasks' = [tasks EXCEPT ![k].existing = storage.transactions,
                              ![k].pc = "saveTransaction:setItem"]
    /\ UNCHANGED <<storage, inbox, parserVars>>

\* await AsyncStorage.setItem(..., [...existingTransactions, transaction])
SaveSetItem(k) ==
    /\ k \in 1..Len(tasks)
    /\ tasks[k].pc = "saveTransaction:setItem"
    /\ storage' = [storage EXCEPT
                     !.hasTransactions = TRUE,
                     !.transactions = Append(tasks[k].existing,
                                             tasks[k].transaction)]
    /\ tasks' = [tasks EXCEPT
                   ![k].writes = @ + 1,
                   ![k].pc = "saveTransaction:updateBudgetSpending"]
    /\ UNCHANGED <<inbox, parserVars>>

\* Where a task goes on when the saveTransaction it awaits has returned.
AfterSave(task, st) ==
    CASE task.op = "saveTransaction" -> Return(task, st)
      [] task.op = "addTransaction" ->
            [task EXCEPT !.pc = "addTransaction:updateBudgetSpending"]
      [] task.op = "processSMSTransactions" ->
            [task EXCEPT !.processedCount = @ + 1, !.i = @ + 1,
                         !.pc = "processSMSTransactions:loop"]

\* if (transaction.type === 'expense') ... await updateBudgetSpending(...)
SaveUpdateBudget(k) ==
    /\ k \in 1..Len(tasks)
    /\ tasks[k].pc = "saveTransaction:updateBudgetSpending"
    /\ storage' = BudgetAfterSave(storage, tasks[k].transaction)
    /\ tasks' = [tasks EXCEPT ![k] = AfterSave(tasks[k], storage')]
    /\ UNCHANGED <<inbox, parserVars>>

\* deleteTransaction(transactionId) is called.
BeginDeleteTransaction(transactionId) ==
    /\ tasks' = Append(tasks,
                   NewTask("deleteTransaction", "deleteTransaction:getItem",
                           <<>>, transactionId))
    /\ UNCHANGED <<storage, inbox, parserVars>>

\* await AsyncStorage.getItem(...); if (!existingTransactionsJSON) return;
DeleteGetItem(k) ==
    /\ k \in 1..Len(tasks)
    /\ tasks[k].pc = "deleteTransaction:getItem"
    /\ tasks' = [tasks EXCEPT ![k] =
                   IF storage.hasTransactions
                   THEN [tasks[k] EXCEPT
                                  !.existing = storage.transactions,
                                  !.hasExisting = TRUE,
                                  !.pc = "deleteTransaction:setItem"]
                   ELSE Return(tasks[k], storage)]
    /\ UNCHANGED <<storage, inbox, parserVars>>

\* await AsyncStorage.setItem(..., existingTransactions.filter(...))
DeleteSetItem(k) ==
    /\ k \in 1..Len(tasks)
    /\ tasks[k].pc = "deleteTransaction:setItem"
    /\ storage' = [storage EXCEPT
                     !.transactions = WithoutId(tasks[k].existing,
                                                tasks[k].id)]
    /\ tasks' = [tasks EXCEPT
                   ![k].writes = @ + 1,
                   ![k].pc = "deleteTransaction:updateBudgetSpending"]
    /\ UNCHANGED <<inbox, parserVars>>

\* if (transactionToDelete && ...) await updateBudgetSpending(..., -amount)
DeleteUpdateBudget(k) ==
    /\ k \in 1..Len(tasks)
    /\ tasks[k].pc = "deleteTransaction:updateBudgetSpending"
    /\ storage' = BudgetAfterDelete(storage, tasks[k].existing, tasks[k].id)
    /\ tasks' = [tasks EXCEPT ![k] = Return(tasks[k], storage')]
    /\ UNCHANGED <<inbox, parserVars>>

\* AppContext.addTransaction(transaction) is called: the id is generated and
\* saveTransaction awaited.
BeginAddTransaction(transaction) ==
    /\ tasks' = Append(tasks,
                   NewTask("addTransaction", "saveTransaction:getItem",
                           [transaction EXCEPT !.id = DateNow(Len(tasks))],
                           ""))
    /\ UNCHANGED <<storage, inbox, parserVars>>

\* addTransaction after saveTransaction has returned:
\* if (newTransaction.type === 'expense') ... await updateBudgetSpending(...)
BudgetAfterAdd(st, transaction) ==
    IF CountsInBudget(transaction)
    THEN updateBudgetSpending(st, currentMonth, transaction.category,
                              transaction.amount)
    ELSE st

AddUpdateBudget(k) ==
    /\ k \in 1..Len(tasks)
    /\ tasks[k].pc = "addTransaction:updateBudgetSpending"
    /\ storage' = BudgetAfterAdd(storage, tasks[k].transaction)
    /\ tasks' = [tasks EXCEPT ![k] = Return(tasks[k], storage')]
    /\ UNCHANGED <<inbox, parserVars>>

\* AppContext.removeTransaction(id) is called: deleteTransaction is awaited;
\* what follows it touches the screen's state only.
BeginRemoveTransaction(transactionId) ==
    /\ tasks' = Append(tasks,
                   NewTask("removeTransaction", "deleteTransaction:getItem",
                           <<>>, transactionId))
    /\ UNCHANGED <<storage, inbox, parserVars>>

\* updateBudgetSpending(currentMonth, category, amount) is called by itself.
CallUpdateBudgetSpending(categoryName, amount) ==
    /\ storage' = updateBudgetSpending(storage, currentMonth, categoryName,
                                       amount)
    /\ tasks' = Append(tasks,
                   Return(NewTask("updateBudgetSpending", "done",
                                  [category |-> categoryName,
                                   amount |-> amount], ""),
                          storage'))
    /\ UNCHANGED <<inbox, parserVars>>

(***************************************************************************)
(* The ledger: calls of the storage layer and of AppContext made one after *)
(* the other, each returning before the next is made, on a storage that    *)
(* holds no budget or a budget for the current month (and one for the      *)
(* month before).  The budget screen stores only categories with an        *)
(* allocated amount above 0.                                               *)
(***************************************************************************)
BudgetCategories(spent) ==
    <<[name |-> "Food", allocatedAmount |-> 10, spentAmount |-> spent],
      [name |-> "Rent", allocatedAmount |-> 20, spentAmount |-> 4]>>

BudgetsWith(spent) ==
    <<[id |-> "budget-05", month |-> "2025-05",
       categories |-> BudgetCategories(7)],
      [id |-> "budget-06", month |-> currentMonth,
       categories |-> BudgetCategories(spent)]>>


ManualTransaction(type, categoryName, amount, date) ==
    [id |-> "", amount |-> amount, type |-> type, category |-> categoryName,
     description |-> "", date |-> date, source |-> "manual"]

LedgerTransactions ==
    {ManualTransaction("expense", "Food", 3, "2025-06-15"),
     ManualTransaction("expense", "Food", 6, "2025-06-15"),
     ManualTransaction("income", "Food", 3, "2025-06-15"),
     ManualTransaction("expense", "Food", 3, "2025-05-31"),
     ManualTransaction("expense", "Travel", 3, "2025-06-15")}

\* The last one is the storage saveTransaction of a Food expense of 6 with
\* id "a" leaves.
LedgerStorages ==
    {EmptyStorage}
    \cup {[EmptyStorage EXCEPT !.budgets = BudgetsWith(spent),
                               !.settings.enableBudgetAlerts = alerts] :
            spent \in {5, 9}, alerts \in BOOLEAN}
    \cup {[EmptyStorage EXCEPT
             !.budgets = BudgetsWith(9),
             !.hasTransactions = TRUE,
             !.transactions =
                 <<[ManualTransaction("expense", "Food", 6, "2025-06-15")
                      EXCEPT !.id = "a"]>>]}

TransactionIds == {"a", "b"}

\* The ids a caller can name: the given ones and those in storage.
KnownIds ==
    TransactionIds
    \cup {storage.transactions[i].id : i \in 1..Len(storage.transactions)}

InitLedger ==
    /\ ParserIdle
    /\ storage \in LedgerStorages
    /\ tasks = <<>>
    /\ inbox = <<>>

\* The caller awaits each call before it makes the next.
OneAtATime == AllDone /\ Len(tasks) < MaxOps

TaskStep(k) ==
    \/ SaveGetItem(k)
    \/ SaveSetItem(k)
    \/ SaveUpdateBudget(k)
    \/ DeleteGetItem(k)
    \/ DeleteSetItem(k)
    \/ DeleteUpdateBudget(k)
    \/ AddUpdateBudget(k)

NextLedger ==
    \/ \E t \in LedgerTransactions, id \in TransactionIds \cup {""} :
           OneAtATime /\ BeginSaveTransaction([t EXCEPT !.id = id])
    \/ \E id \in KnownIds : OneAtATime /\ BeginDeleteTransaction(id)
    \/ \E t \in LedgerTransactions : OneAtATime /\ BeginAddTransaction(t)
    \/ \E id \in KnownIds : OneAtATime /\ BeginRemoveTransaction(id)
    \/ \E c \in {"Food", "Travel"}, a \in {0 - 3, 3, 6} :
           OneAtATime /\ CallUpdateBudgetSpending(c, a)
    \/ \E k \in 1..Len(tasks) : TaskStep(k)

SpecLedger == InitLedger /\ [][NextLedger]_vars

(***************************************************************************)
(* The race: saveTransaction and deleteTransaction calls made while        *)
(* earlier ones are still in flight.                                       *)
(***************************************************************************)
RaceStorages ==
    {[EmptyStorage EXCEPT !.budgets = BudgetsWith(5)],
     [EmptyStorage EXCEPT
        !.hasTransactions = TRUE,
        !.transactions =
            <<[ManualTransaction("income", "Salary", 6, "2025-06-01")
                 EXCEPT !.id = "z"]>>]}

InitRace ==
    /\ ParserIdle
    /\ storage \in RaceStorages
    /\ tasks = <<>>
    /\ inbox = <<>>

Overlapping == Len(tasks) < MaxTasks

NextRace ==
    \/ \E id \in TransactionIds :
           /\ Overlapping
           /\ BeginSaveTransaction(
                  [ManualTransaction("expense", "Food", 3, "2025-06-15")
                     EXCEPT !.id = id])
    \/ \E id \in KnownIds : Overlapping /\ BeginDeleteTransaction(id)
    \/ \E k \in 1..Len(tasks) :
           \/ SaveGetItem(k)
           \/ SaveSetItem(k)
           \/ SaveUpdateBudget(k)
           \/ DeleteGetItem(k)
           \/ DeleteSetItem(k)
           \/ DeleteUpdateBudget(k)

SpecRace == InitRace /\ [][NextRace]_vars

(***************************************************************************)
(* SMS sync (src/utils/smsReader.ts, the processSMSTransactions of lines   *)
(* 463-615).  A device message is [_id, address, body, date]; date is the  *)
(* ISO string new Date(message.date).toISOString() gives.  No bank name is *)
(* passed to filterBankSMS.  Nothing throws inside the loop (parseBankSMS  *)
(* catches, AsyncStorage does not fail), so its catch block is not         *)
(* entered.                                                                *)
(***************************************************************************)
\* bankKeywords, in lower case (both sides are upper-cased before the
\* comparison); the Taka sign is left out.
BankKeywords ==
    {"ucb", "united commercial bank", "ucbl",
     "dbbl", "dutch-bangla", "brac-bank", "brac", "islami-bank", "islami",
     "eastern-bank", "eastern", "city-bank", "city", "prime-bank", "prime",
     "mutual-trust", "standard-chartered", "scb", "hsbc", "citibank",
     "trust-bank", "mercantile", "southeast", "uttara",
     "debited", "credited", "balance", "transaction", "payment", "purchase",
     "withdrawal", "deposit", "transfer", "account", "card", "atm",
     "withdrawn", "charged",
     "bdt", "taka", "tk",
     "your a/c", "your account", "your card", "available balance",
     "current balance", "avl bal", "bal:", "transaction alert",
     "debit card", "beftn", "npsb", "for query"}

\* (?:BDT|TK)\s*[\d,]+ stands at position i of the lower-cased text.
CurrencyNumberAt(ls, i) ==
    \E cur \in {"bdt", "tk"} :
        /\ LitAt(ls, i, cur)
        /\ IsNumSep(Ch(ls, SkipSpace(ls, i + Len(cur))))

\* /(?:BDT|TK|...)\s*[\d,]+\.?\d*/i.test(body)
HasAmount(ls) == \E i \in 1..Len(ls) : CurrencyNumberAt(ls, i)

\* /(?:balance|bal):?\s*(?:BDT|TK|...)?\s*[\d,]+\.?\d*/i.test(body)
HasBalance(ls) ==
    \E i \in 1..Len(ls) : \E label \in {"balance", "bal"} :
        /\ LitAt(ls, i, label)
        /\ LET p == i + Len(label)
               q == SkipSpace(ls, IF Ch(ls, p) = ":" THEN p + 1 ELSE p)
           IN  IsNumSep(Ch(ls, q)) \/ CurrencyNumberAt(ls, q)

\* /A\/C\s*\(/i.test(body) || /account/i.test(body)
HasAccountRef(ls) ==
    \/ \E i \in 1..Len(ls) :
           LitAt(ls, i, "a/c") /\ Ch(ls, SkipSpace(ls, i + 3)) = "("
    \/ Contains(ls, "account")

\* The predicate of the filter.
IsBankSMS(m) ==
    LET body == ToLower(m.body)
        address == ToLower(m.address)
    IN  /\ \E keyword \in BankKeywords :
               Contains(body, keyword) \/ Contains(address, keyword)
        /\ HasAmount(body) \/ HasBalance(body) \/ HasAccountRef(body)

filterBankSMS(messages) == SelectSeq(messages, IsBankSMS)

\* Variant: the ids of the manual transactions are collected.
ExistingManualIds(list) ==
    {list[i].id : i \in {j \in 1..Len(list) : list[j].source = "manual"}}

\* new Set(existingTransactions.filter(t => t.source === 'sms').map(t => t.id))
ExistingSMSIds(list) ==
    {list[i].id : i \in {j \in 1..Len(list) : list[j].source = "sms"}}

\* The app transaction made of a parsed message.
SMSTransaction(m, parsed) ==
    [id |-> "sms-" \o m._id,
     amount |-> parsed.amount,
     type |-> IF parsed.type = "debit" THEN "expense" ELSE "income",
     category |-> categorizeTransaction(BaseDescription(parsed),
                                        <<parsed.amount>>),
     description |-> BaseDescription(parsed),
     date |-> m.date,
     source |-> "sms"]

\* processSMSTransactions() is called.
BeginProcessSMSTransactions ==
    /\ tasks' = Append(tasks,
          NewTask("processSMSTransactions",
                  "processSMSTransactions:requestSMSPermission", <<>>, "")
          @@ [success |-> FALSE, processedCount |-> 0, duplicateCount |-> 0,
              errorCount |-> 0, totalFound |-> 0, errors |-> <<>>,
              hasPermission |-> FALSE, didRead |-> FALSE,
              bankMessages |-> <<>>,
              existingSMSIds |-> {}, i |-> 1])
    /\ UNCHANGED <<storage, inbox, parserVars>>

\* await requestSMSPermission(), which the user grants or not.
SyncPermission(k, hasPermission) ==
    /\ k \in 1..Len(tasks)
    /\ tasks[k].pc = "processSMSTransactions:requestSMSPermission"
    /\ tasks' = [tasks EXCEPT ![k] =
          IF ~hasPermission
          THEN Return([tasks[k] EXCEPT
                         !.errors = Append(@, "SMS permission not granted")],
                      storage)
          ELSE [tasks[k] EXCEPT
                  !.hasPermission = TRUE,
                  !.pc = "processSMSTransactions:readDeviceSMS"]]
    /\ UNCHANGED <<storage, inbox, parserVars>>

\* await readDeviceSMS(); filterBankSMS; the early return on no message.
SyncReadDeviceSMS(k) ==
    /\ k \in 1..Len(tasks)
    /\ tasks[k].pc = "processSMSTransactions:readDeviceSMS"
    /\ LET bankMessages == filterBankSMS(inbox)
           found == [tasks[k] EXCEPT !.didRead = TRUE,
                                     !.bankMessages = bankMessages,
                                     !.totalFound = Len(bankMessages)]
       IN  tasks' = [tasks EXCEPT ![k] =
              IF Len(bankMessages) = 0
              THEN Return([found EXCEPT !.success = TRUE], storage)
              ELSE [found EXCEPT
                      !.pc = "processSMSTransactions:getTransactions"]]
    /\ UNCHANGED <<storage, inbox, parserVars>>

\* await getTransactions(); the set of ids is made once, before the loop.
SyncGetTransactions(k) ==
    /\ k \in 1..Len(tasks)
    /\ tasks[k].pc = "processSMSTransactions:getTransactions"
    /\ tasks' = [tasks EXCEPT
          ![k].existingSMSIds = ExistingSMSIds(storage.transactions),
          ![k].pc = "processSMSTransactions:loop"]
    /\ UNCHANGED <<storage, inbox, parserVars>>

\* Variant: a duplicate is skipped without being counted.
SkipDuplicateUncounted(task) == [task EXCEPT !.i = @ + 1]

\* result.duplicateCount++; continue;
SkipDuplicate(task) == [task EXCEPT !.duplicateCount = @ + 1, !.i = @ + 1]

\* result.errorCount++; result.errors.push(errorMsg); continue;
CountParseError(task, m) ==
    [task EXCEPT !.errorCount = @ + 1,
                 !.errors = Append(@, "Could not parse SMS " \o m._id),
                 !.i = @ + 1]

\* One turn of the loop, up to its await or continue; after the last
\* message, result.success = true and the return.
LoopTurn(task, now) ==
    IF task.i > Len(task.bankMessages)
    THEN Return([task EXCEPT !.success = TRUE], storage)
    ELSE LET m == task.bankMessages[task.i]
             parsed == parseBankSMS(TRUE, m.body, now)
         IN  IF ("sms-" \o m._id) \in task.existingSMSIds
             THEN SkipDuplicate(task)
             ELSE IF parsed.tag = "null"
             THEN CountParseError(task, m)
             ELSE [task EXCEPT !.transaction = SMSTransaction(m, parsed),
                               !.pc = "saveTransaction:getItem"]

SyncLoop(k) ==
    /\ k \in 1..Len(tasks)
    /\ tasks[k].pc = "processSMSTransactions:loop"
    /\ tasks' = [tasks EXCEPT ![k] = LoopTurn(tasks[k], ClockAt(k))]
    /\ UNCHANGED <<storage, inbox, parserVars>>

(***************************************************************************)
(* Sync runs made one after the other over the messages of the device,     *)
(* starting from an empty storage.                                         *)
(***************************************************************************)
\* Most messages on the device.
MaxInbox == 2

MessageIds == {"1", "2"}
\* A debit, a bank message without an amount and a message that is not from
\* a bank.
MessageBodies == {"debited BDT 5", "your account", "hello"}

DeviceMessages ==
    {[_id |-> id, address |-> "UCB", body |-> body, date |-> "2025-06-15"] :
        id \in MessageIds, body \in MessageBodies}

Inboxes ==
    UNION {[1..n -> DeviceMessages] : n \in 0..MaxInbox}

InitSync ==
    /\ ParserIdle
    /\ storage = EmptyStorage
    /\ tasks = <<>>
    /\ inbox \in Inboxes

SyncStep(k) ==
    \/ \E hasPermission \in BOOLEAN : SyncPermission(k, hasPermission)
    \/ SyncReadDeviceSMS(k)
    \/ SyncGetTransactions(k)
    \/ SyncLoop(k)
    \/ SaveGetItem(k)
    \/ SaveSetItem(k)
    \/ SaveUpdateBudget(k)

NextSync ==
    \/ OneAtATime /\ BeginProcessSMSTransactions
    \/ \E k \in 1..Len(tasks) : SyncStep(k)

SpecSync == InitSync /\ [][NextSync]_vars

(***************************************************************************)
(* Sync runs in flight together (syncSMS of AppContext does not wait for a *)
(* run that is under way), over one message, two messages with distinct    *)
(* ids or two messages with the same id.                                   *)
(***************************************************************************)
DebitMessage(id) ==
    [_id |-> id, address |-> "UCB", body |-> "debited BDT 5",
     date |-> "2025-06-15"]

InitSyncRace ==
    /\ ParserIdle
    /\ storage = EmptyStorage
    /\ tasks = <<>>
    /\ inbox \in {<<DebitMessage("1")>>,
                  <<DebitMessage("1"), DebitMessage("2")>>,
                  <<DebitMessage("1"), DebitMessage("1")>>}

NextSyncRace ==
    \/ Overlapping /\ BeginProcessSMSTransactions
    \/ \E k \in 1..Len(tasks) : SyncStep(k)

SpecSyncRace == InitSyncRace /\ [][NextSyncRace]_vars



(***************************************************************************)
(* Properties.  In each of them s is the normalized text of the message of *)
(* the current state and ls its lower-case form; a candidate is the        *)
(* (leftmost) match of one pattern of a field's pattern list.              *)
(***************************************************************************)
Clean == Normalize(message)

Returned == pc = "returned" /\ isString
IsRecord == pc = "returned" /\ result.tag = "record"

HasWord(ls, words) == \E w \in words : Contains(ls, w)

\* The candidate m yields a number > 0.
YieldsPositive(m) == m.ok /\ Positive(CapturedNumber(m))
CandidatePositive(s, ls, k) == YieldsPositive(AmountPatternMatch(s, ls, k))
SomeCandidatePositive(s, ls) ==
    \E k \in 1..NumAmountPatterns : CandidatePositive(s, ls, k)

RecordFields ==
    {"tag", "type", "amount", "balance", "timestamp", "accountNumber",
     "description", "transactionId"}

\* C1: every non-null result has type debit or credit and an amount > 0, and
\* a message none of whose amount candidates yields a number > 0 gives null.
C1_PositiveAmountOrNull ==
    Returned =>
        LET s == Clean
            ls == ToLower(s)
        IN  /\ result.tag = "record" =>
                  result.type \in {"debit", "credit"} /\ Positive(result.amount)
            /\ ~SomeCandidatePositive(s, ls) => result = Null

\* C2: parseBankSMS never raises: every call returns null or a complete
\* record, and a call whose body throws returns null.
C2_NeverRaises ==
    pc = "returned" =>
        /\ result.tag \in {"null", "record"}
        /\ result.tag = "null" => result = Null
        /\ result.tag = "record" => DOMAIN result = RecordFields
        /\ ~isString => result = Null

\* C2 witness: a call on a value that is no string has returned null.
C2_Witness == pc = "returned" /\ ~isString /\ result = Null

\* C3: a message with no credit word and no debit word gives null, whatever
\* else it contains.
C3_NoVocabularyNull ==
    Returned =>
        LET ls == ToLower(Clean)
        IN  ~HasWord(ls, CreditWords) /\ ~HasWord(ls, DebitWords)
                => result = Null

\* C3 witness: a message with a positive BDT amount and no type word gave
\* null.
C3_Witness ==
    /\ Returned
    /\ LET s == Clean
           ls == ToLower(s)
       IN  /\ ~HasWord(ls, CreditWords)
           /\ ~HasWord(ls, DebitWords)
           /\ CandidatePositive(s, ls, 1)
    /\ result = Null

\* The decimal value of the amount tokens the message fragments hold, written
\* out by hand (the value the claims speak of, not the parser's).
TokenValue(tok) ==
    CASE tok = "3,060.50" -> [nan |-> FALSE, mant |-> 30605, exp |-> 1]
      [] tok = "0.00" -> [nan |-> FALSE, mant |-> 0, exp |-> 0]
      [] tok = "43" -> [nan |-> FALSE, mant |-> 43, exp |-> 0]
      [] tok = "2.5" -> [nan |-> FALSE, mant |-> 25, exp |-> 1]
      [] tok = "5" -> [nan |-> FALSE, mant |-> 5, exp |-> 0]
      [] tok = "9" -> [nan |-> FALSE, mant |-> 9, exp |-> 0]
      [] tok = "7,000" -> [nan |-> FALSE, mant |-> 7000, exp |-> 0]
      [] tok = "," -> NaN

\* The amount texts of all 'BDT <amount>' tokens of s, and of the leftmost.
BDTTokens(s, ls) ==
    {NumberCapture(s, SkipSpace(s, i + Len("bdt"))).g1 :
        i \in {j \in 1..Len(s) : LabelledNumberAt(s, LitEnd(ls, j, "bdt"))}}
FirstBDTToken(s, ls) ==
    NumberCapture(s, SkipSpace(s, Len("bdt") +
        Min({j \in 1..Len(s) : LabelledNumberAt(s, LitEnd(ls, j, "bdt"))}))).g1

\* C4 as claimed: a message with a debit keyword and a 'BDT <amount>' token
\* of value > 0 gives a debit record whose amount is such a token's value.
C4_DebitWithBDTAmount ==
    Returned =>
        LET s == Clean
            ls == ToLower(s)
            good == {tok \in BDTTokens(s, ls) : Positive(TokenValue(tok))}
        IN  HasWord(ls, DebitWords) /\ good # {} =>
                /\ result.tag = "record"
                /\ result.type = "debit"
                /\ \E tok \in good : result.amount = TokenValue(tok)

\* C4 as amended: a message with a debit keyword and no credit keyword whose
\* leftmost 'BDT <amount>' token has a value > 0 gives a debit record whose
\* amount is that token's value.
C4_DebitWithFirstBDTAmount ==
    Returned =>
        LET s == Clean
            ls == ToLower(s)
        IN  /\ HasWord(ls, DebitWords)
            /\ ~HasWord(ls, CreditWords)
            /\ BDTTokens(s, ls) # {}
            /\ Positive(TokenValue(FirstBDTToken(s, ls)))
            => /\ result.tag = "record"
               /\ result.type = "debit"
               /\ result.amount = TokenValue(FirstBDTToken(s, ls))

\* C4 witness: "debited ... BDT 3,060.50" gave a debit of 3060.5, and a later
\* BDT token of another value did not count.
C4_Witness ==
    /\ IsRecord
    /\ LET s == Clean
           ls == ToLower(s)
       IN  /\ HasWord(ls, DebitWords)
           /\ ~HasWord(ls, CreditWords)
           /\ BDTTokens(s, ls) = {"3,060.50", "43"}
           /\ FirstBDTToken(s, ls) = "3,060.50"
    /\ result.type = "debit"
    /\ result.amount = [nan |-> FALSE, mant |-> 30605, exp |-> 1]

\* C5: the credit vocabulary is consulted before the debit vocabulary: a
\* record's type is credit when the message holds a credit word (also beside
\* debit words) and debit, with a debit word present, otherwise.
C5_CreditBeforeDebit ==
    IsRecord =>
        LET ls == ToLower(Clean)
        IN  IF HasWord(ls, CreditWords)
            THEN result.type = "credit"
            ELSE result.type = "debit" /\ HasWord(ls, DebitWords)

\* C5 witness: a message with both a credit and a debit word came out credit.
C5_Witness ==
    /\ IsRecord
    /\ LET ls == ToLower(Clean)
       IN  HasWord(ls, CreditWords) /\ HasWord(ls, DebitWords)
    /\ result.type = "credit"

NoneMatches(n, M(_)) == \A k \in 1..n : ~M(k).ok

NoBalanceMatch(s, ls) ==
    LET M(k) == BalancePatternMatch(s, ls, k)
    IN  NoneMatches(NumBalancePatterns, M)
NoTimestampMatch(s, ls) ==
    LET M(k) == TimestampPatternMatch(s, ls, k)
    IN  NoneMatches(NumTimestampPatterns, M)
NoAccountMatch(s, ls) ==
    /\ ~MatchAccountAC(s, ls).ok
    /\ ~MatchAccountCard(s, ls).ok
    /\ ~MatchAccountGeneric(s, ls).ok
NoReferenceMatch(s, ls) ==
    /\ ~MatchPrefixDigits(s, ls, "for query:").ok
    /\ ~MatchPrefixDigits(s, ls, "cl id:").ok
    /\ ~MatchRef(s, ls).ok
NoDescriptionMatch(s, ls) ==
    /\ ~MatchMerchant(s, ls).ok
    /\ ~MatchesATM(s, ls)
    /\ ~Contains(ls, "beftn inward credit")
    /\ ~MatchesTransfer(s, ls)
    /\ ~Contains(ls, "npsb charge")
    /\ ~Contains(ls, "reversed")

KindDefault(type) == IF type = "debit" THEN "Bank Debit" ELSE "Bank Credit"

\* Every field none of whose patterns matches holds its default.
MissingFieldsDefaulted(s, ls) ==
    /\ NoBalanceMatch(s, ls) => result.balance = [nan |-> FALSE, mant |-> 0, exp |-> 0]
    /\ NoTimestampMatch(s, ls) => result.timestamp = clock
    /\ NoAccountMatch(s, ls) => result.accountNumber = Undefined
    /\ NoReferenceMatch(s, ls) => result.transactionId = Undefined
    /\ NoDescriptionMatch(s, ls) => result.description = KindDefault(result.type)

\* C6: a message with a type word in which some amount candidate yields a
\* number > 0 gives a record whether or not the balance, timestamp, account,
\* description and reference patterns match, and each of these fields that
\* no pattern matches holds its default.
C6_OnlyKindAndAmountFail ==
    Returned =>
        LET s == Clean
            ls == ToLower(s)
        IN  /\ HasWord(ls, CreditWords) \/ HasWord(ls, DebitWords)
            /\ SomeCandidatePositive(s, ls)
            => result.tag = "record" /\ MissingFieldsDefaulted(s, ls)

\* C6 witness: a record for a message that holds a type word and an amount
\* and nothing else, all five other fields at their defaults.
C6_Witness ==
    /\ IsRecord
    /\ LET s == Clean
           ls == ToLower(s)
       IN  /\ NoBalanceMatch(s, ls)
           /\ NoTimestampMatch(s, ls)
           /\ NoAccountMatch(s, ls)
           /\ NoReferenceMatch(s, ls)
           /\ NoDescriptionMatch(s, ls)
    /\ result.balance = [nan |-> FALSE, mant |-> 0, exp |-> 0]
    /\ result.timestamp = clock
    /\ result.accountNumber = Undefined
    /\ result.transactionId = Undefined
    /\ result.description = "Bank Debit"

\* C7 as claimed: the amount of a record is the value of the first amount
\* candidate, in pattern order, that parses to a number > 0.
C7_FirstPositiveCandidate ==
    IsRecord =>
        LET s == Clean
            ls == ToLower(s)
        IN  \E k \in 1..NumAmountPatterns :
                /\ CandidatePositive(s, ls, k)
                /\ \A j \in 1..(k - 1) : ~CandidatePositive(s, ls, j)
                /\ result.amount = CapturedNumber(AmountPatternMatch(s, ls, k))

\* C8 as claimed: when only the 'on dd/mm/yy hh:mm' pattern matches, the
\* timestamp is the date and the time in one string.
C8_DateAndTimeCombined ==
    IsRecord =>
        LET s == Clean
            ls == ToLower(s)
            on == TimestampPatternMatch(s, ls, 3)
        IN  /\ ~TimestampPatternMatch(s, ls, 1).ok
            /\ ~TimestampPatternMatch(s, ls, 2).ok
            /\ on.ok
            => result.timestamp = on.g1 \o " " \o on.g2

\* C9: the timestamp patterns are tried in the order '@ time', 'at time',
\* 'on date time' and the first that matches gives the timestamp; the
\* timestamp is the wall-clock time exactly when none of them matches.
C9_FirstTimestampMatchWins ==
    IsRecord =>
        LET s == Clean
            ls == ToLower(s)
            atSign == TimestampPatternMatch(s, ls, 1)
            atWord == TimestampPatternMatch(s, ls, 2)
            on == TimestampPatternMatch(s, ls, 3)
        IN  /\ result.timestamp = clock <=> ~atSign.ok /\ ~atWord.ok /\ ~on.ok
            /\ atSign.ok => result.timestamp = atSign.g1
            /\ ~atSign.ok /\ atWord.ok => result.timestamp = atWord.g1
            /\ ~atSign.ok /\ ~atWord.ok /\ on.ok =>
                  result.timestamp \in {on.g1, on.g1 \o " " \o on.g2}

\* C9 witness: '@ time' and 'at time' both match, with different times, and
\* the timestamp is the one that follows '@'.
C9_Witness ==
    /\ IsRecord
    /\ LET s == Clean
           ls == ToLower(s)
       IN  /\ TimestampPatternMatch(s, ls, 1).g1 = "07:58 PM"
           /\ TimestampPatternMatch(s, ls, 2).g1 = "7:58 am"
    /\ result.timestamp = "07:58 PM"

\* C10 as claimed: a message that holds 'UCBL ATM' or 'NPSB ATM' anywhere and
\* no merchant clause has the description 'ATM Withdrawal'.
C10_ATMNameAnywhere ==
    IsRecord =>
        LET s == Clean
            ls == ToLower(s)
        IN  /\ Contains(ls, "ucbl atm") \/ Contains(ls, "npsb atm")
            /\ ~MatchMerchant(s, ls).ok
            => result.description = "ATM Withdrawal"

\* C10 as amended: a message that holds 'at', white space and 'UCBL ATM' or
\* 'NPSB ATM' (in any case) and no merchant clause has the description
\* 'ATM Withdrawal'.
C10_ATMNameAfterAt ==
    IsRecord =>
        LET s == Clean
            ls == ToLower(s)
        IN  /\ Contains(ls, "at ucbl atm") \/ Contains(ls, "at npsb atm")
            /\ ~MatchMerchant(s, ls).ok
            => result.description = "ATM Withdrawal"

\* C10 witness: a withdrawal 'at NPSB ATM' with no merchant clause is
\* described as 'ATM Withdrawal'.
C10_Witness ==
    /\ IsRecord
    /\ LET s == Clean
           ls == ToLower(s)
       IN  /\ Contains(ls, "withdrawn")
           /\ Contains(ls, "at npsb atm")
           /\ ~MatchMerchant(s, ls).ok
    /\ result.description = "ATM Withdrawal"

NumDescriptionRules ==
    Len(<<"merchant", "ATM", "Beftn Inward Credit", "Transfer",
          "NPSB CHARGE", "reversed">>)

\* Rule i of the description rules hits the message.
DescriptionRuleHit(s, ls, i) ==
    CASE i = 1 -> MatchMerchant(s, ls).ok
      [] i = 2 -> Contains(ls, "at ucbl atm") \/ Contains(ls, "at npsb atm")
      [] i = 3 -> Contains(ls, "beftn inward credit")
      [] i = 4 -> MatchesTransfer(s, ls)
      [] i = 5 -> Contains(ls, "npsb charge")
      [] i = 6 -> Contains(ls, "reversed")

\* The description rule i gives.
DescriptionRuleValue(s, ls, i) ==
    CASE i = 1 -> Trim(MatchMerchant(s, ls).g1)
      [] i = 2 -> "ATM Withdrawal"
      [] i = 3 -> "Bank Transfer (Received)"
      [] i = 4 -> "Online Transfer"
      [] i = 5 -> "Bank Service Charge"
      [] i = 6 -> "Transaction Reversal"

\* C11: the description of a record is the value of the first description
\* rule, in the order merchant clause, ATM, 'Beftn Inward Credit', transfer,
\* 'NPSB CHARGE', 'reversed', that hits the message, 'Bank Debit' or
\* 'Bank Credit' by type when none hits, and never the empty string.
C11_FirstDescriptionRuleWins ==
    IsRecord =>
        LET s == Clean
            ls == ToLower(s)
            hits == {i \in 1..NumDescriptionRules : DescriptionRuleHit(s, ls, i)}
        IN  /\ result.description # ""
            /\ result.description =
                  IF hits = {} THEN KindDefault(result.type)
                  ELSE DescriptionRuleValue(s, ls, Min(hits))

\* C11 witness: a message with 'NPSB CHARGE' and 'reversed' and no earlier
\* rule's phrase is described as 'Bank Service Charge'.
C11_Witness ==
    /\ IsRecord
    /\ LET s == Clean
           ls == ToLower(s)
       IN  {i \in 1..NumDescriptionRules : DescriptionRuleHit(s, ls, i)} = {5, 6}
    /\ result.description = "Bank Service Charge"

\* The balance candidates that parse to a number.
NumericBalanceCandidates(s, ls) ==
    {k \in 1..NumBalancePatterns :
        /\ BalancePatternMatch(s, ls, k).ok
        /\ ~isNaN(CapturedNumber(BalancePatternMatch(s, ls, k)))}

\* C12 as claimed: the balance of a record is the number of the first
\* balance candidate, in pattern order, that parses to a number, and 0 when
\* no candidate does; it is never a non-number.
C12_BalanceFirstNumberOrZero ==
    IsRecord =>
        LET s == Clean
            ls == ToLower(s)
            numeric == NumericBalanceCandidates(s, ls)
        IN  /\ ~isNaN(result.balance)
            /\ result.balance =
                  IF numeric = {} THEN [nan |-> FALSE, mant |-> 0, exp |-> 0]
                  ELSE CapturedNumber(BalancePatternMatch(s, ls, Min(numeric)))

\* The identifiers a message made of the "identifiers" fragments is to
\* give, read off the text: the first label of each list that the message
\* holds with its digits.
ExpectedAccount(s) ==
    IF Contains(s, "A/C (***3766)") THEN "3766"
    ELSE IF Contains(s, "Card#5884") THEN "5884"
    ELSE IF Contains(s, "account no 1234") THEN "1234"
    ELSE Undefined

ExpectedTransactionId(s) ==
    IF Contains(s, "For query: 16419") THEN "16419"
    ELSE IF Contains(s, "CL ID:257015") THEN "257015"
    ELSE IF Contains(s, "Ref: AB12") THEN "AB12"
    ELSE Undefined

\* C13: accountNumber is the capture of the first of 'A/C (***digits)',
\* 'Card#digits', 'account ... 4 digits' that matches, transactionId that of
\* the first of 'For query: digits', 'CL ID: digits', 'Ref: alphanumeric';
\* a label without its digits falls through, and a field none of whose
\* candidates matches is undefined.
C13_FirstIdentifierWins ==
    IsRecord =>
        LET s == Clean
        IN  /\ result.accountNumber = ExpectedAccount(s)
            /\ result.transactionId = ExpectedTransactionId(s)

\* C13 witness: 'For query: Call:16' has no digits after the label, so the
\* reference is that of 'CL ID:', and there is no account number.
C13_Witness ==
    /\ IsRecord
    /\ Contains(Clean, "For query: Call:16")
    /\ result.transactionId = "257015"
    /\ result.accountNumber = Undefined

\* The labels of the keyword rules of categorizeTransaction, in rule order.
RuleLabels ==
    << "ATM Withdrawal", "Bank Transfer", "Bank Fees", "Refund", "Shopping",
       "Health", "Food", "Transport", "Shopping", "Bills", "Income",
       "Entertainment", "Education" >>

\* The number of the rule each description word belongs to (0: to none).
WordRule(w) ==
    CASE w = "ATM " -> 1
      [] w = "Transfer " -> 2
      [] w = "Fee " -> 3
      [] w = "Reversal " -> 4
      [] w = "Gold " -> 5
      [] w = "Pharma " -> 6
      [] w = "Cafe " -> 7
      [] w = "Uber " -> 8
      [] w = "Shop " -> 9
      [] w = "Bill " -> 10
      [] w = "Bonus " -> 11
      [] w = "Game " -> 12
      [] w = "Book " -> 13
      [] OTHER -> 0

\* The rules that have a word in the description d.
RulesOf(d) ==
    {WordRule(w) : w \in {x \in DescriptionWords : Contains(d, x)}} \ {0}

Categorized == pc = "categorized"

\* C14: a description that holds keywords of several rules gets the label
\* of the first of them in the order 1..13, whatever the amount.
C14_FirstCategoryRuleWins ==
    Categorized =>
        LET rules == RulesOf(descriptionArg)
        IN  rules # {} => category = RuleLabels[Min(rules)]

\* C14 witness: 'Shop Cafe' with the amount 25000 is 'Food' (rule 7), not
\* 'Shopping' (rule 9) and not 'Large Payment'.
C14_Witness ==
    /\ Categorized
    /\ descriptionArg = "Shop Cafe "
    /\ amountArg = <<[nan |-> FALSE, mant |-> 25000, exp |-> 0]>>
    /\ category = "Food"

CategoryLabels ==
    { "ATM Withdrawal", "Bank Transfer", "Bank Fees", "Refund", "Shopping",
      "Health", "Food", "Transport", "Bills", "Income", "Entertainment",
      "Education", "Large Payment", "Other" }

\* C15: categorizeTransaction returns one of the fourteen labels for every
\* description, the empty one included, and every amount: absent, zero,
\* negative or not a number.
C15_CategoryInFixedSet == Categorized => category \in CategoryLabels

\* C15 witness: the empty description with the amount NaN gave 'Other'.
C15_Witness ==
    /\ Categorized
    /\ descriptionArg = ""
    /\ amountArg = <<NaN>>
    /\ category = "Other"

\* The amounts of CategorizeAmounts that are greater than 10000:
\* 10000.01 and 25000.
AmountsOverThreshold ==
    { <<[nan |-> FALSE, mant |-> 1000001, exp |-> 2]>>,
      <<[nan |-> FALSE, mant |-> 25000, exp |-> 0]>> }

\* C16: when no keyword rule matches, the category is 'Large Payment' if an
\* amount greater than 10000 is given and 'Other' if not; when a rule
\* matches, the category is the one the description gets without an amount.
C16_LargePaymentOnlyByDefault ==
    Categorized =>
        IF RulesOf(descriptionArg) = {}
        THEN category = IF amountArg \in AmountsOverThreshold
                        THEN "Large Payment" ELSE "Other"
        ELSE /\ category \notin {"Large Payment", "Other"}
             /\ category = categorizeTransaction(descriptionArg, <<>>)

\* C16 witness: 'Bank Debit' with the amount 10000 exactly gave 'Other'.
C16_Witness ==
    /\ Categorized
    /\ descriptionArg = "Bank Debit "
    /\ amountArg = <<[nan |-> FALSE, mant |-> 10000, exp |-> 0]>>
    /\ category = "Other"

ParseCalls == {i \in DOMAIN calls : calls[i].fn = "parseBankSMS"}

\* The results r1 and r2 of two calls on the clean text s are the same, or
\* are records that differ in the timestamp only, no timestamp pattern
\* matching s.
SameButFallback(r1, r2, s) ==
    \/ r1 = r2
    \/ /\ r1.tag = "record"
       /\ r2.tag = "record"
       /\ [r1 EXCEPT !.timestamp = ""] = [r2 EXCEPT !.timestamp = ""]
       /\ NoTimestampMatch(s, ToLower(s))

\* The text of call i with one space between the words and none around.
PlainBody(i) == Render(Texts[calls[i].text], Layout("plain"))

\* C17: the normalized text of a body is its words with one space between
\* them and none around them, whatever white space the body holds;
\* normalizing it again changes nothing; and two bodies that differ in
\* their white space only give the same result, the fallback timestamp
\* aside.
C17_WhitespaceInsensitive ==
    /\ \A i \in ParseCalls :
          /\ Normalize(calls[i].arg) = PlainBody(i)
          /\ Normalize(Normalize(calls[i].arg)) = Normalize(calls[i].arg)
    /\ \A i, j \in ParseCalls :
          calls[i].text = calls[j].text =>
              SameButFallback(calls[i].result, calls[j].result, PlainBody(i))

\* C17 witness: the same text with newlines between the words and with
\* padding around and between them gave the same record.
C17_Witness ==
    /\ Len(calls) >= 2
    /\ calls[1].fn = "parseBankSMS" /\ calls[1].layout = "lines"
    /\ calls[2].fn = "parseBankSMS" /\ calls[2].layout = "padded"
    /\ calls[1].text = calls[2].text
    /\ calls[1].arg # calls[2].arg
    /\ calls[1].result.tag = "record"
    /\ calls[1].result = calls[2].result

Parsed == pc \in {"returned", "categorized"}

HoldsAll(s, pieces) == \A p \in pieces : Contains(s, p)

\* The body starts with the debit sentence of scenario 1 and holds its
\* three other parts.
IsAccountDebitMessage ==
    /\ family = "accountDebit"
    /\ LitAt(message, 1, "Your A/C (***3766) has been debited BDT 3,060.00. ")
    /\ HoldsAll(message, Fragments("accountDebit"))

\* C19: 'Your A/C (***3766) has been debited BDT 3,060.00. Avl Bal: BDT
\* 3,04,017.61 @ 07:58 PM. For query: 16419' parses to a debit of 3060 with
\* balance 304017.61, account '3766', timestamp '07:58 PM', reference
\* '16419' and description 'Bank Debit', whose category is 'Other'.
C19_AccountDebitScenario ==
    Parsed /\ IsAccountDebitMessage =>
        /\ result.tag = "record"
        /\ result.type = "debit"
        /\ result.amount = [nan |-> FALSE, mant |-> 3060, exp |-> 0]
        /\ result.balance = [nan |-> FALSE, mant |-> 30401761, exp |-> 2]
        /\ result.accountNumber = "3766"
        /\ result.timestamp = "07:58 PM"
        /\ result.transactionId = "16419"
        /\ result.description = "Bank Debit"
        /\ pc = "categorized" =>
              descriptionArg = "Bank Debit" /\ category = "Other"

\* C19 witness: the message of the scenario, word for word, has been parsed
\* and categorized as 'Other'.
C19_Witness ==
    /\ pc = "categorized"
    /\ message = "Your A/C (***3766) has been debited BDT 3,060.00. "
                    \o "Avl Bal: BDT 3,04,017.61 @ 07:58 PM. For query: 16419"
    /\ result.timestamp = "07:58 PM"
    /\ category = "Other"

\* C20: a message with the parts 'Your UCB Debit Card#5884', '(CL
\* ID:257015)', 'has been charged for BDT4,300.00' and 'at NEW SONALI
\* JEWELLERS on 07/05/25 20:07' parses to a debit of 4300 with account
\* '5884', reference '257015' and description 'NEW SONALI JEWELLERS', whose
\* category is 'Shopping'.
C20_CardChargeScenario ==
    /\ Parsed
    /\ family = "cardCharge"
    /\ HoldsAll(message, Fragments("cardCharge"))
    => /\ result.tag = "record"
       /\ result.type = "debit"
       /\ result.amount = [nan |-> FALSE, mant |-> 4300, exp |-> 0]
       /\ result.accountNumber = "5884"
       /\ result.transactionId = "257015"
       /\ result.description = "NEW SONALI JEWELLERS"
       /\ pc = "categorized" =>
              descriptionArg = "NEW SONALI JEWELLERS" /\ category = "Shopping"

\* C20 witness: the message of the scenario, word for word, has been parsed
\* and categorized as 'Shopping'.
C20_Witness ==
    /\ pc = "categorized"
    /\ message = "Your UCB Debit Card#5884 (CL ID:257015) has been charged "
                    \o "for BDT4,300.00 at NEW SONALI JEWELLERS on 07/05/25 20:07"
    /\ result.description = "NEW SONALI JEWELLERS"
    /\ category = "Shopping"

(***************************************************************************)
(* Properties of the storage layer and of the calls on it.                 *)
(***************************************************************************)
TaskIds == 1..Len(tasks)
Done(k) == tasks[k].pc = "done"
IsOp(k, op) == tasks[k].op = op

\* The transaction t is in the stored list.
InList(list, t) == \E i \in 1..Len(list) : list[i] = t
\* How many stored transactions carry the id.
CountId(list, id) == Cardinality({i \in 1..Len(list) : list[i].id = id})

\* Some deleteTransaction call names the id.
DeleteCalledFor(id) ==
    \E j \in TaskIds : IsOp(j, "deleteTransaction") /\ tasks[j].id = id

\* C23: a saveTransaction call that has returned has its transaction in
\* storage, whatever save and delete calls were in flight with it, unless a
\* deleteTransaction call named its id.
C23_CompletedSaveIsStored ==
    \A k \in TaskIds :
        (/\ IsOp(k, "saveTransaction")
         /\ Done(k)
         /\ ~DeleteCalledFor(tasks[k].transaction.id))
        => InList(storage.transactions, tasks[k].transaction)

\* The categories of the budget of the current month (none without one).
CurrentCategories(st) ==
    LET b == BudgetIndex(st.budgets, currentMonth)
    IN  IF b = 0 THEN <<>> ELSE st.budgets[b].categories

InBudget(st, name) == CategoryIndex(CurrentCategories(st), name) # 0

\* The spentAmount of the category of that name.
SpentIn(st, name) ==
    CurrentCategories(st)[CategoryIndex(CurrentCategories(st), name)]
        .spentAmount

\* The spentAmount of every category, in the order of the budget.
AllSpent(st) ==
    [i \in 1..Len(CurrentCategories(st)) |->
        CurrentCategories(st)[i].spentAmount]

\* Task k + 1 is the call op(id), made after call k returned, and has
\* returned.
FollowedBy(k, op, id) ==
    /\ k + 1 \in TaskIds
    /\ IsOp(k + 1, op)
    /\ tasks[k + 1].id = id
    /\ Done(k + 1)

\* C25: AppContext.addTransaction of an expense of the current month whose
\* category is in the budget raises that category's spentAmount by exactly
\* the amount, and removeTransaction of it right after brings the
\* spentAmount back to what it was before the add.
C25_AddCountsAmountOnce ==
    \A k \in TaskIds :
        (/\ IsOp(k, "addTransaction")
         /\ Done(k)
         /\ CountsInBudget(tasks[k].transaction)
         /\ InBudget(tasks[k].before, tasks[k].transaction.category))
        => LET t == tasks[k].transaction
           IN  /\ SpentIn(tasks[k].after, t.category)
                    = SpentIn(tasks[k].before, t.category) + t.amount
               /\ FollowedBy(k, "removeTransaction", t.id)
                    => SpentIn(tasks[k + 1].after, t.category)
                         = SpentIn(tasks[k].before, t.category)

\* C26: saveTransaction(t) followed by deleteTransaction(t.id) leaves the
\* transaction list and every category's spentAmount as they were before
\* the save; saving or deleting an income or a transaction of another month
\* leaves the budgets unchanged.
C26_SaveThenDeleteRestores ==
    \A k \in TaskIds :
        (IsOp(k, "saveTransaction") /\ Done(k))
        => LET t == tasks[k].transaction
           IN  /\ FollowedBy(k, "deleteTransaction", t.id)
                    => /\ tasks[k + 1].after.transactions
                            = tasks[k].before.transactions
                       /\ AllSpent(tasks[k + 1].after)
                            = AllSpent(tasks[k].before)
               /\ ~CountsInBudget(t)
                    => /\ tasks[k].after.budgets = tasks[k].before.budgets
                       /\ FollowedBy(k, "deleteTransaction", t.id)
                            => tasks[k + 1].after.budgets
                                 = tasks[k].before.budgets

AllocatedIn(st, name) ==
    CurrentCategories(st)[CategoryIndex(CurrentCategories(st), name)]
        .allocatedAmount

\* The category goes from below the share t (in percent) of its allocation
\* to that share or above it.
CrossesUp(st, after, name, t) ==
    /\ SpentIn(st, name) * 100 < t * AllocatedIn(st, name)
    /\ SpentIn(after, name) * 100 >= t * AllocatedIn(st, name)

\* What a step that stores a notification must look like.
StoresOnCrossing ==
    LET n == Len(storage.notifications)
        note == storage'.notifications[n + 1]
    IN  /\ Len(storage'.notifications) <= n + 1
        /\ Len(storage'.notifications) >= n
        /\ Len(storage'.notifications) = n + 1
             => /\ SubSeq(storage'.notifications, 1, n)
                     = storage.notifications
                /\ storage.settings.enableBudgetAlerts
                /\ InBudget(storage, note.category)
                /\ SpentIn(storage', note.category)
                     > SpentIn(storage, note.category)
                /\ note.type \in {"budget_exceeded", "budget_warning"}
                /\ note.type = "budget_exceeded"
                     => CrossesUp(storage, storage', note.category, 100)
                /\ note.type = "budget_warning"
                     => /\ CrossesUp(storage, storage', note.category,
                                     storage.settings.warningThreshold)
                        /\ ~CrossesUp(storage, storage', note.category, 100)

\* C27: a call of updateBudgetSpending stores at most one notification, and
\* only when alerts are enabled, the month has a budget with the category
\* and the update takes the category upwards across a threshold:
\* 'budget_exceeded' from below the allocation to it or above,
\* 'budget_warning' from below warningThreshold percent to it or above
\* without reaching the allocation from below.
C27_NotificationOnlyOnCrossing == [][StoresOnCrossing]_vars

\* Two updates have each stored their notification: the first took Food to
\* the warning threshold, the second over its allocation.
C27_Witness ==
    /\ AllDone
    /\ Len(storage.notifications) = 2
    /\ storage.notifications[1].type = "budget_warning"
    /\ storage.notifications[2].type = "budget_exceeded"
    /\ \E k \in TaskIds : IsOp(k, "updateBudgetSpending")

(***************************************************************************)
(* Properties of the SMS sync.                                             *)
(***************************************************************************)
IsSync(k) == IsOp(k, "processSMSTransactions")

\* The messages of the device carry distinct _id values.
DistinctMessageIds ==
    \A i, j \in 1..Len(inbox) : inbox[i]._id = inbox[j]._id => i = j

StoredIds(list) == {list[i].id : i \in 1..Len(list)}

\* The bank messages of run k whose transaction was in storage when the run
\* was called.
SavedBefore(k) ==
    {i \in 1..Len(tasks[k].bankMessages) :
        ("sms-" \o tasks[k].bankMessages[i]._id)
            \in StoredIds(tasks[k].before.transactions)}

\* C21: when the device messages carry distinct _id values and the runs are
\* made one after the other, a run made after a run that completed stores
\* nothing: its processedCount is 0, it counts every message saved before
\* as a duplicate, and storage holds no two transactions with the same id.
C21_RerunStoresNothing ==
    DistinctMessageIds
    => /\ \A id \in StoredIds(storage.transactions) :
              CountId(storage.transactions, id) = 1
       /\ \A j, k \in TaskIds :
              (/\ j < k
               /\ IsSync(j) /\ Done(j) /\ tasks[j].success
               /\ IsSync(k) /\ Done(k) /\ tasks[k].success)
              => /\ tasks[k].processedCount = 0
                 /\ tasks[k].writes = 0
                 /\ tasks[k].after.transactions
                      = tasks[k].before.transactions
                 /\ tasks[k].duplicateCount = Cardinality(SavedBefore(k))
                 /\ tasks[k].duplicateCount >= tasks[j].processedCount

\* A first run saved a message and a second run counted it as a duplicate.
C21_Witness ==
    /\ DistinctMessageIds
    /\ Len(tasks) = 2
    /\ AllDone
    /\ tasks[1].success /\ tasks[1].processedCount >= 1
    /\ tasks[2].success /\ tasks[2].duplicateCount >= 1

\* C22: storage never holds two transactions for one SMS id, whether the
\* runs are in flight together or a batch holds two messages with the same
\* _id.
C22_NoSMSStoredTwice ==
    \A id \in StoredIds(storage.transactions) :
        CountId(storage.transactions, id) <= 1

\* C24: a run that returned with success = true has processedCount +
\* duplicateCount + errorCount = totalFound and as many errors as
\* errorCount; a run that was denied the permission returned success =
\* false, all counters 0 and one error, and read no message and wrote
\* nothing.
C24_CountersAddUp ==
    \A k \in TaskIds :
        (IsSync(k) /\ Done(k))
        => /\ tasks[k].success
                => /\ tasks[k].processedCount + tasks[k].duplicateCount
                          + tasks[k].errorCount = tasks[k].totalFound
                   /\ Len(tasks[k].errors) = tasks[k].errorCount
           /\ ~tasks[k].hasPermission
                => /\ ~tasks[k].success
                   /\ tasks[k].processedCount = 0
                   /\ tasks[k].duplicateCount = 0
                   /\ tasks[k].errorCount = 0
                   /\ tasks[k].totalFound = 0
                   /\ Len(tasks[k].errors) = 1
                   /\ ~tasks[k].didRead
                   /\ tasks[k].writes = 0

\* A run saved one message and could not parse another, and the next run
\* was denied the permission.
C24_Witness ==
    /\ Len(tasks) = 2
    /\ AllDone
    /\ tasks[1].success
    /\ tasks[1].processedCount = 1
    /\ tasks[1].errorCount = 1
    /\ ~tasks[2].hasPermission

(***************************************************************************)
(* Properties of the categorizer on whole descriptions.                    *)
(***************************************************************************)
\* C28: a keyword of one of the rules 5 to 13, passed as the whole
\* description, gets the label of its own rule.
C28_KeywordGetsOwnLabel ==
    Categorized
    => \A n \in 1..Len(LaterRules) :
           descriptionArg \in LaterRules[n].words
           => category = LaterRules[n].label

\* C29: the fixed descriptions of the extractor are categorized, whatever
\* the amount, 'ATM Withdrawal' as ATM Withdrawal, 'Bank Transfer
\* (Received)' and 'Online Transfer' as Bank Transfer, 'Bank Service Charge'
\* as Bank Fees, 'Transaction Reversal' as Refund, and the defaults 'Bank
\* Debit' and 'Bank Credit' as Large Payment when the amount is above 10000
\* and as Other otherwise.
C29_FixedDescriptionsCategorized ==
    Categorized
    => /\ descriptionArg = "ATM Withdrawal" => category = "ATM Withdrawal"
       /\ descriptionArg \in {"Bank Transfer (Received)", "Online Transfer"}
            => category = "Bank Transfer"
       /\ descriptionArg = "Bank Service Charge" => category = "Bank Fees"
       /\ descriptionArg = "Transaction Reversal" => category = "Refund"
       /\ descriptionArg \in {"Bank Debit", "Bank Credit"}
            => category = IF GreaterThan(amountArg[1], LargePaymentThreshold)
                          THEN "Large Payment"
                          ELSE "Other"
       /\ descriptionArg \in
              {"ATM Withdrawal", "Bank Transfer (Received)", "Online Transfer",
               "Bank Service Charge", "Transaction Reversal", "Bank Debit",
               "Bank Credit"}

\* A charge message of 25,000 got the description 'Bank Service Charge' and
\* the category Bank Fees.
C29_Witness ==
    /\ Categorized
    /\ descriptionArg = "Bank Service Charge"
    /\ GreaterThan(amountArg[1], LargePaymentThreshold)
    /\ category = "Bank Fees"

\* C30: the amount of a record is not the number of the balance clause (in
\* these messages the balance numbers differ from the transaction amount).
C30_AmountIsNotBalance ==
    (Returned /\ result.tag = "record")
    => result.amount # result.balance

====
